---- MODULE Spec2Model ----
(***************************************************************************)
(* httpot: the request parser, the header map, the requester resolution    *)
(* and the response builder, as state machines.                            *)
(*                                                                         *)
(* Text is a sequence of one-character strings, so that split, trim,       *)
(* lower-casing and number parsing are computed character by character.    *)
(* Option<T> is a sequence of length 0 (None) or 1 (Some).                 *)
(***************************************************************************)
EXTENDS Integers, Sequences, FiniteSets, TLC

(***************************************************************************)
(* Text primitives (Rust str methods used by the parser).                  *)
(***************************************************************************)

\* char::is_whitespace, on the characters that occur
WhiteSpace == {" ", "\t", "\r", "\n"}

RECURSIVE TrimStart(_)
TrimStart(s) ==
  IF s # <<>> /\ Head(s) \in WhiteSpace THEN TrimStart(Tail(s)) ELSE s

RECURSIVE TrimEnd(_)
TrimEnd(s) ==
  IF s # <<>> /\ s[Len(s)] \in WhiteSpace
  THEN TrimEnd(SubSeq(s, 1, Len(s) - 1))
  ELSE s

\* str::trim
Trim(s) == TrimEnd(TrimStart(s))

RECURSIVE ScanUp(_, _, _)
ScanUp(s, D, i) ==
  IF i > Len(s) THEN 0 ELSE IF s[i] \in D THEN i ELSE ScanUp(s, D, i + 1)

RECURSIVE ScanDown(_, _, _)
ScanDown(s, D, i) ==
  IF i = 0 THEN 0 ELSE IF s[i] \in D THEN i ELSE ScanDown(s, D, i - 1)

\* index of the first character of s that is in D, 0 when there is none
FirstIn(s, D) == ScanUp(s, D, 1)

\* index of the last character of s that is in D, 0 when there is none
LastIn(s, D) == ScanDown(s, D, Len(s))

\* str::split on a one-character pattern (any character of D): the pieces
\* between the delimiters, empty pieces kept; a text without delimiter is
\* one piece, the empty text included
RECURSIVE Split(_, _)
Split(s, D) ==
  LET i == FirstIn(s, D) IN
  IF i = 0
  THEN <<s>>
  ELSE <<SubSeq(s, 1, i - 1)>> \o Split(SubSeq(s, i + 1, Len(s)), D)

\* str::split_once on a one-character pattern: None, or Some((before, after))
SplitOnce(s, d) ==
  LET i == FirstIn(s, {d}) IN
  IF i = 0
  THEN <<>>
  ELSE <<SubSeq(s, 1, i - 1), SubSeq(s, i + 1, Len(s))>>

\* char::to_lowercase on the letters
LowerChar(c) ==
  CASE c = "A" -> "a" [] c = "B" -> "b" [] c = "C" -> "c" [] c = "D" -> "d"
    [] c = "E" -> "e" [] c = "F" -> "f" [] c = "G" -> "g" [] c = "H" -> "h"
    [] c = "I" -> "i" [] c = "J" -> "j" [] c = "K" -> "k" [] c = "L" -> "l"
    [] c = "M" -> "m" [] c = "N" -> "n" [] c = "O" -> "o" [] c = "P" -> "p"
    [] c = "Q" -> "q" [] c = "R" -> "r" [] c = "S" -> "s" [] c = "T" -> "t"
    [] c = "U" -> "u" [] c = "V" -> "v" [] c = "W" -> "w" [] c = "X" -> "x"
    [] c = "Y" -> "y" [] c = "Z" -> "z" [] OTHER -> c

\* str::to_lowercase
ToLower(s) == [i \in 1..Len(s) |-> LowerChar(s[i])]

Digits == {"0", "1", "2", "3", "4", "5", "6", "7", "8", "9"}

DigitVal(c) ==
  CASE c = "0" -> 0 [] c = "1" -> 1 [] c = "2" -> 2 [] c = "3" -> 3
    [] c = "4" -> 4 [] c = "5" -> 5 [] c = "6" -> 6 [] c = "7" -> 7
    [] c = "8" -> 8 [] c = "9" -> 9

RECURSIVE DecimalValue(_)
DecimalValue(s) ==
  IF s = <<>> THEN 0
  ELSE 10 * DecimalValue(SubSeq(s, 1, Len(s) - 1)) + DigitVal(s[Len(s)])

AllDigits(s) == s # <<>> /\ \A i \in 1..Len(s) : s[i] \in Digits

\* str::parse::<usize>: an optional '+', then one or more decimal digits;
\* None for anything else (the values that occur are far below 2^64)
ParseUsize(s) ==
  LET t == IF s # <<>> /\ Head(s) = "+" THEN Tail(s) ELSE s IN
  IF AllDigits(t) THEN <<DecimalValue(t)>> ELSE <<>>

RECURSIVE UsizeToString(_)
\* usize::to_string
UsizeToString(n) ==
  LET d == <<"0", "1", "2", "3", "4", "5", "6", "7", "8", "9">> IN
  IF n < 10 THEN <<d[n + 1]>> ELSE UsizeToString(n \div 10) \o <<d[(n % 10) + 1]>>

\* [String]::join
RECURSIVE Join(_, _)
Join(parts, sep) ==
  IF parts = <<>> THEN <<>>
  ELSE IF Len(parts) = 1 THEN parts[1]
  ELSE parts[1] \o sep \o Join(Tail(parts), sep)

(***************************************************************************)
(* Header Map (lib/http/headers.rs): a map from the header name, as        *)
(* received, to the sequence of its values.  It is a function whose domain *)
(* is the set of names present.                                            *)
(***************************************************************************)

\* Headers::default / Headers::new
EmptyHeaders == [n \in {} |-> <<>>]

\* a faulty variant of HeadersGet: the name is matched whatever its case
HeadersGetAnyCase(h, k) ==
  IF \E n \in DOMAIN h : [i \in 1..Len(n) |-> LowerChar(n[i])] = [i \in 1..Len(k) |-> LowerChar(k[i])]
  THEN <<h[CHOOSE n \in DOMAIN h : [i \in 1..Len(n) |-> LowerChar(n[i])] = [i \in 1..Len(k) |-> LowerChar(k[i])]]>>
  ELSE <<>>

\* Headers::get: None, or Some(values)
HeadersGet(h, k) == IF k \in DOMAIN h THEN <<h[k]>> ELSE <<>>

\* Headers::len
HeadersLen(h) == Cardinality(DOMAIN h)

\* a faulty variant of HeadersAdd: the entry is replaced, not extended
HeadersAddReplacing(h, k, v) ==
  [n \in (DOMAIN h) \cup {k} |-> IF n = k THEN <<v>> ELSE h[n]]

\* Headers::add: entry(k).and_modify(push v).or_insert_with(vec![v])
HeadersAdd(h, k, v) ==
  [n \in (DOMAIN h) \cup {k} |->
     IF n = k
     THEN (IF k \in DOMAIN h THEN Append(h[k], v) ELSE <<v>>)
     ELSE h[n]]

\* the parser's headers.entry(name).and_modify(extend_from_slice(vals))
\*                                 .or_insert(vals)
HeadersEntryExtend(h, name, vals) ==
  [n \in (DOMAIN h) \cup {name} |->
     IF n = name
     THEN (IF name \in DOMAIN h THEN h[name] \o vals ELSE vals)
     ELSE h[n]]

\* KNOWN_LIST_HEADERS: lower-case header name, join/split delimiter
KNOWN_LIST_HEADERS ==
  {
    <<<<"a","-","i","m">>, ",">>,
    <<<<"a","c","c","e","p","t">>, ",">>,
    <<<<"a","c","c","e","p","t","-","c","h","a","r","s","e","t">>, ",">>,
    <<<<"a","c","c","e","p","t","-","e","n","c","o","d","i","n","g">>, ",">>,
    <<<<"a","c","c","e","p","t","-","l","a","n","g","u","a","g","e">>, ",">>,
    <<<<"a","c","c","e","s","s","-","c","o","n","t","r","o","l","-","r","e","q","u","e","s","t","-","h","e","a","d","e","r","s">>, ",">>,
    <<<<"c","a","c","h","e","-","c","o","n","t","r","o","l">>, ",">>,
    <<<<"c","o","o","k","i","e">>, ";">>,
    <<<<"c","o","n","n","e","c","t","i","o","n">>, ",">>,
    <<<<"c","o","n","t","e","n","t","-","t","y","p","e">>, ";">>,
    <<<<"c","o","n","t","e","n","t","-","e","n","c","o","d","i","n","g">>, ",">>,
    <<<<"e","x","p","e","c","t">>, ",">>,
    <<<<"f","o","r","w","a","r","d","e","d">>, ",">>,
    <<<<"i","f","-","m","a","t","c","h">>, ",">>,
    <<<<"i","f","-","n","o","n","e","-","m","a","t","c","h">>, ",">>,
    <<<<"p","r","e","f","e","r">>, ";">>,
    <<<<"r","a","n","g","e">>, ",">>,
    <<<<"t","e">>, ",">>,
    <<<<"t","r","a","i","l","e","r">>, ",">>,
    <<<<"t","r","a","n","s","f","e","r","-","e","n","c","o","d","i","n","g">>, ",">>,
    <<<<"u","p","g","r","a","d","e">>, ",">>,
    <<<<"v","i","a">>, ",">>,
    <<<<"w","a","r","n","i","n","g">>, ",">>,
    <<<<"x","-","f","o","r","w","a","r","d","e","d","-","f","o","r">>, ",">>
  }

\* get(name) of the table the static refers to: None, or Some(delimiter)
KnownListDelimIn(tbl, lname) ==
  IF \E e \in tbl : e[1] = lname
  THEN <<(CHOOSE e \in tbl : e[1] = lname)[2]>>
  ELSE <<>>

\* KNOWN_LIST_HEADERS.get(name): None, or Some(delimiter)
KnownListDelim(lname) == KnownListDelimIn(KNOWN_LIST_HEADERS, lname)

(***************************************************************************)
(* Method (lib/http/request.rs).                                           *)
(***************************************************************************)

Methods == {"GET", "HEAD", "POST", "PUT", "DELETE", "CONNECT", "OPTIONS", "TRACE"}

\* impl FromStr for Method: None stands for the "unknown HTTP method" error
MethodFromStr(s) ==
  CASE s = <<"G","E","T">> -> <<"GET">>
    [] s = <<"H","E","A","D">> -> <<"HEAD">>
    [] s = <<"P","O","S","T">> -> <<"POST">>
    [] s = <<"P","U","T">> -> <<"PUT">>
    [] s = <<"D","E","L","E","T","E">> -> <<"DELETE">>
    [] s = <<"C","O","N","N","E","C","T">> -> <<"CONNECT">>
    [] s = <<"O","P","T","I","O","N","S">> -> <<"OPTIONS">>
    [] s = <<"T","R","A","C","E">> -> <<"TRACE">>
    [] OTHER -> <<>>

\* a faulty variant of BodilessMethods: DELETE is left out of the match arm
BodilessMethodsWithoutDelete == {"GET", "HEAD", "CONNECT", "OPTIONS", "TRACE"}

\* the methods whose Body state reads nothing
BodilessMethods == {"GET", "HEAD", "DELETE", "CONNECT", "OPTIONS", "TRACE"}

(***************************************************************************)
(* Url::parse, as the parser uses it (lib/http/request.rs, url             *)
(* construction): the text is always "http://" + host value + path token.  *)
(* The WHATWG rules for a special scheme, on the characters that occur:    *)
(* no IPv6 literal, no percent-encoding, no hexadecimal IPv4 part.         *)
(***************************************************************************)

RECURSIVE SkipSlashes(_)
\* after the scheme of a special URL every '/' and '\' is skipped
SkipSlashes(s) ==
  IF s # <<>> /\ Head(s) \in {"/", "\\"} THEN SkipSlashes(Tail(s)) ELSE s

ForbiddenHostChars ==
  {" ", "\t", "\r", "\n", "#", "/", ":", "<", ">", "?", "@", "[", "\\", "]",
   "^", "|", "%"}

RECURSIVE OctalValue(_)
OctalValue(s) ==
  IF s = <<>> THEN 0
  ELSE 8 * OctalValue(SubSeq(s, 1, Len(s) - 1)) + DigitVal(s[Len(s)])

\* one part of an IPv4 host: octal with a leading 0, decimal otherwise;
\* None when it is no number
Ipv4Part(p) ==
  IF ~AllDigits(p) THEN <<>>
  ELSE IF Len(p) > 1 /\ Head(p) = "0"
  THEN (IF \E i \in 1..Len(p) : p[i] \in {"8", "9"} THEN <<>> ELSE <<OctalValue(p)>>)
  ELSE <<DecimalValue(p)>>

RECURSIVE Pow256(_)
Pow256(n) == IF n = 0 THEN 1 ELSE 256 * Pow256(n - 1)

\* the labels of a host, a trailing empty label dropped
HostLabels(h) ==
  LET parts == Split(h, {"."}) IN
  IF Len(parts) > 1 /\ parts[Len(parts)] = <<>>
  THEN SubSeq(parts, 1, Len(parts) - 1)
  ELSE parts

\* a host whose last label is a number is an IPv4 address
EndsInNumber(h) ==
  LET parts == HostLabels(h) IN AllDigits(parts[Len(parts)])

\* the IPv4 parser: None (an error), or Some(dotted quad)
Ipv4Parse(h) ==
  LET parts == HostLabels(h)
      n == Len(parts)
      nums == [i \in 1..n |-> Ipv4Part(parts[i])]
  IN
  IF n > 4 \/ \E i \in 1..n : nums[i] = <<>> THEN <<>>
  ELSE IF \E i \in 1..(n - 1) : nums[i][1] > 255 THEN <<>>
  ELSE IF nums[n][1] >= Pow256(5 - n) THEN <<>>
  ELSE
    LET RECURSIVE High(_)
        High(i) == IF i = 0 THEN 0 ELSE High(i - 1) + nums[i][1] * Pow256(4 - i)
        addr == High(n - 1) + nums[n][1]
        byte(k) == (addr \div Pow256(4 - k)) % 256
    IN <<Join([k \in 1..4 |-> UsizeToString(byte(k))], <<".">>)>>

\* the host parser: None (an error), or Some(host as the Url renders it)
HostParse(h) ==
  LET lower == ToLower(h) IN
  IF h = <<>> THEN <<>>
  ELSE IF \E i \in 1..Len(h) : h[i] \in ForbiddenHostChars THEN <<>>
  ELSE IF EndsInNumber(lower) THEN Ipv4Parse(lower)
  ELSE <<lower>>

\* the port parser: None (an error), or Some(port), the port itself None
\* when it is absent or the scheme's default
PortParse(p) ==
  IF p = <<>> THEN << <<>> >>
  ELSE IF ~AllDigits(p) THEN <<>>
  ELSE IF DecimalValue(p) > 65535 THEN <<>>
  ELSE IF DecimalValue(p) = 80 THEN << <<>> >>
  ELSE << <<DecimalValue(p)>> >>

RECURSIVE PathSegments(_, _)
\* the path state: "." is dropped, ".." removes the segment before it
PathSegments(segs, out) ==
  IF segs = <<>> THEN out
  ELSE
    LET seg == Head(segs)
        last == Len(segs) = 1
    IN
    IF seg = <<".", ".">>
    THEN PathSegments(Tail(segs),
           (IF out = <<>> THEN out ELSE SubSeq(out, 1, Len(out) - 1))
             \o (IF last THEN << <<>> >> ELSE <<>>))
    ELSE IF seg = <<".">>
    THEN PathSegments(Tail(segs), out \o (IF last THEN << <<>> >> ELSE <<>>))
    ELSE PathSegments(Tail(segs), Append(out, seg))

\* Url::path of the parsed text: never empty for http
NormalizePath(p) ==
  LET segs == IF p = <<>> THEN << <<>> >> ELSE Split(Tail(p), {"/", "\\"}) IN
  <<"/">> \o Join(PathSegments(segs, <<>>), <<"/">>)

\* Url::parse of "http:" + rest: None (an error), or Some(url)
UrlParse(s) ==
  LET rest == SkipSlashes(SubSeq(s, 6, Len(s)))
      e == FirstIn(rest, {"/", "\\", "?", "#"})
      authority == IF e = 0 THEN rest ELSE SubSeq(rest, 1, e - 1)
      tail == IF e = 0 THEN <<>> ELSE SubSeq(rest, e, Len(rest))
      at == LastIn(authority, {"@"})
      userinfo == IF at = 0 THEN <<>> ELSE SubSeq(authority, 1, at - 1)
      hostport == SubSeq(authority, at + 1, Len(authority))
      c == FirstIn(hostport, {":"})
      host == HostParse(IF c = 0 THEN hostport ELSE SubSeq(hostport, 1, c - 1))
      port == PortParse(IF c = 0 THEN <<>> ELSE SubSeq(hostport, c + 1, Len(hostport)))
      f == FirstIn(tail, {"#"})
      noFragment == IF f = 0 THEN tail ELSE SubSeq(tail, 1, f - 1)
      q == FirstIn(noFragment, {"?"})
      pathText == IF q = 0 THEN noFragment ELSE SubSeq(noFragment, 1, q - 1)
      query == IF q = 0 THEN <<>> ELSE <<SubSeq(noFragment, q + 1, Len(noFragment))>>
  IN
  IF host = <<>> \/ port = <<>> THEN <<>>
  ELSE <<[host |-> host[1], port |-> port[1], path |-> NormalizePath(pathText),
          query |-> query, userinfo |-> userinfo]>>

(***************************************************************************)
(* The request parser (lib/http/request.rs, parse_request).                *)
(*                                                                         *)
(* wire is everything the peer sends before it closes the connection; pos  *)
(* is how much of it the reader has consumed.                              *)
(***************************************************************************)

VARIABLES
  wire,        \* the bytes the peer sends, then end of stream
  pos,         \* bytes consumed by the reader
  state,       \* RequestReadState, or "Done" once parse_request returned
  method,      \* Option<Method>
  path,        \* Option<String>
  version,     \* Option<String>
  headers,     \* Headers
  body_len,    \* Option<usize>
  body,        \* Vec<u8>
  request,     \* the Ok(Request) parse_request returned, if it did
  error,       \* the Err parse_request returned, if it did: where it arose
  lineReads,   \* history: the read_line calls made
  bodyReads,   \* history: the sizes the read calls of the Body state returned
  lastHeader,  \* history: the last header line read and what it contributed
  visited,     \* history: the state of each iteration of the loop so far
  bodyStart,   \* history: pos when the Body state was entered
  who          \* the answer of Request::requester, once it was called

parserVars ==
  <<wire, pos, state, method, path, version, headers, body_len, body, request,
    error, lineReads, bodyReads, lastHeader, visited, bodyStart, who>>

\* a Headers value of its own, as the tests and the parser fill one
VARIABLES
  hmap,        \* Headers
  hlog         \* history: every (name, value) added, in order

headerMapVars == <<hmap, hlog>>

\* a ResponseBuilder (lib/http/response.rs)
VARIABLES
  b_status_code,  \* Option<StatusCode>
  b_body,         \* Option<Vec<u8>>
  b_headers,      \* Option<Headers>
  b_version,      \* Option<Option<String>>
  built,          \* the result of the last build(): Ok(Response) or Err
  b_calls         \* history: the calls made on the builder, in order

builderVars == <<b_status_code, b_body, b_headers, b_version, built, b_calls>>

\* a Response being sent (BaseResponse::send)
VARIABLES
  resp,        \* Option<Response>: self
  order,       \* the order the header map was iterated in
  send_at,     \* the position in send
  send_buf,    \* Option: buf, the bytes of self.to_string()
  send_n,      \* n, the offset of the first byte not yet written
  send_sent,   \* the bytes the socket has accepted, in order
  send_error,  \* Option: why send returned Err
  send_tried,  \* whether try_write was ever called
  send_ioerr,  \* history: writable or try_write returned an error that is
               \* not WouldBlock
  send_after   \* history: the calls of writable and try_write made after it

sendVars ==
  <<resp, order, send_at, send_buf, send_n, send_sent, send_error, send_tried,
    send_ioerr, send_after>>

\* the service: its accept loops and the tasks spawned for connections
VARIABLES
  listener,    \* the position of the accept loops
  conns,       \* the task of each accepted connection, in accept order
  accepts      \* history: how each accept call returned

serviceVars == <<listener, conns, accepts>>

\* the fake filesystem (lib/fs/fake.rs, gen_fake_nodes and gen_fake_listing)
VARIABLES
  g_calls,     \* history: the invocations made, each with what it returned
  g_rng        \* the generator of the last invocation as it was left (a local)

fakeVars == <<g_calls, g_rng>>

\* one call of plausible_datetime (lib/fs/fake.rs)
VARIABLES
  d_now,       \* Utc::now() as the call reads it
  d_rng,       \* the generator the call draws from
  d_out        \* what the call returned, once it has

datetimeVars == <<d_now, d_rng, d_out>>

\* one call of the router (router.rs)
VARIABLES
  r_req,       \* the Request routed
  r_out        \* what router returned, once it has

routerVars == <<r_req, r_out>>

\* the metrics wrapper of the parse (metrics/request.rs, observe_request)
VARIABLES
  observed,    \* what observe_request returned, once it has
  o_metrics    \* what it recorded: the observations made, in order

observeVars == <<observed, o_metrics>>

\* connection tasks running side by side, and what they share (main.rs
\* listen_loop; the statics of headers.rs and php.rs; the registry of the
\* metrics)
VARIABLES
  tasks,       \* the task of each connection: its input, position and results
  statics,     \* the cells of the lazy statics: None until first used
  registry     \* the default registry of the metrics: observations recorded

taskVars == <<tasks, statics, registry>>

\* what observe_request leaves alone
outsideObserve ==
  <<headerMapVars, builderVars, sendVars, serviceVars, fakeVars, datetimeVars,
    routerVars, taskVars>>

contentVars == <<fakeVars, datetimeVars, routerVars, taskVars>>

\* what the parser's steps leave alone
outsideParser ==
  <<headerMapVars, builderVars, sendVars, serviceVars, contentVars,
    observeVars>>

\* what the header map's steps leave alone
outsideHeaderMap ==
  <<parserVars, builderVars, sendVars, serviceVars, contentVars,
    observeVars>>

\* what the builder's steps leave alone
outsideBuilder ==
  <<parserVars, headerMapVars, sendVars, serviceVars, contentVars,
    observeVars>>

\* what the steps of send leave alone
outsideSend ==
  <<parserVars, headerMapVars, builderVars, serviceVars, contentVars,
    observeVars>>

\* what the steps of the service leave alone
outsideService ==
  <<parserVars, headerMapVars, builderVars, sendVars, contentVars,
    observeVars>>

networkVars == <<parserVars, headerMapVars, builderVars, sendVars, serviceVars>>

\* what the steps of the fake filesystem leave alone
outsideFake ==
  <<networkVars, datetimeVars, routerVars, observeVars,
    taskVars>>

\* what a call of plausible_datetime leaves alone
outsideDatetime ==
  <<networkVars, fakeVars, routerVars, observeVars,
    taskVars>>

\* what a call of the router leaves alone
outsideRouter ==
  <<networkVars, fakeVars, datetimeVars, observeVars,
    taskVars>>

\* what the steps of the connection tasks leave alone
outsideTasks ==
  <<networkVars, fakeVars, datetimeVars, routerVars, observeVars>>

\* the most header lines, beside the host line, a modelled request holds
MaxHeaders == 2

\* the byte a resized Vec<u8> is filled with (body.resize(len, 0))
ZeroByte == "NUL"

\* SocketAddr::to_string of the peer address
PeerAddr == <<"1",".","2",".","3",".","4",":","1","1","1","1">>

s_Host == <<"H","o","s","t">>
s_Forwarded == <<"F","o","r","w","a","r","d","e","d">>
s_XForwardedFor == <<"X","-","F","o","r","w","a","r","d","e","d","-","F","o","r">>
s_content_length == <<"c","o","n","t","e","n","t","-","l","e","n","g","t","h">>
s_for == <<"f","o","r">>
s_http == <<"h","t","t","p",":","/","/">>

\* the first lines a modelled peer sends (the empty one: it closes at once)
StartLines ==
  {
    <<"G","E","T"," ","/"," ","H","T","T","P","/","1",".","1","\r","\n">>,
    <<"P","O","S","T"," ","/"," ","H","T","T","P","/","1",".","1","\r","\n">>,
    <<"P","U","T"," ","/","a","/"," ","H","T","T","P","/","1",".","1","\r","\n">>,
    <<"H","E","A","D"," ","/"," ","H","T","T","P","/","1",".","1","\r","\n">>,
    <<"D","E","L","E","T","E"," ","/"," ","H","T","T","P","/","1",".","1","\r","\n">>,
    <<"C","O","N","N","E","C","T"," ","/"," ","H","T","T","P","/","1",".","1","\r","\n">>,
    <<"O","P","T","I","O","N","S"," ","/","h","e","l","l","o"," ","H","T","T","P","/","1",".","1","\r","\n">>,
    <<"T","R","A","C","E"," ","/"," ","H","T","T","P","/","1",".","1","\r","\n">>,
    <<"P","A","T","C","H"," ","/"," ","H","T","T","P","/","1",".","1","\r","\n">>,
    <<"G","E","T"," ","/","\r","\n">>,
    <<"G","E","T"," "," ","/"," ","H","T","T","P","/","1",".","1","\r","\n">>,
    <<>>,
    <<"G","E","T"," ","x"," ","H","T","T","P","/","1",".","1","\r","\n">>
  }

\* the host lines a modelled peer sends
HostLines ==
  {
    <<"H","o","s","t",":"," ","h","\r","\n">>,
    <<"H","o","s","t",":"," ","1","2","7",".","0",".","0",".","1",":","8","0","8","0","\r","\n">>,
    <<"H","o","s","t",":"," ","h",":","x","\r","\n">>,
    <<"h","o","s","t",":"," ","h","\r","\n">>
  }

\* the other header lines a modelled peer sends
HeaderLines ==
  {
    <<"C","o","n","t","e","n","t","-","L","e","n","g","t","h",":"," ","5","\r","\n">>,
    <<"c","o","n","t","e","n","t","-","l","e","n","g","t","h",":"," ","3","\r","\n">>,
    <<"C","o","n","t","e","n","t","-","L","e","n","g","t","h",":"," ","x","\r","\n">>,
    <<"C","o","o","k","i","e",":"," ","a","s","d","f","=","1","2","3",";"," ","f","g","h","j","=","4","5","6","7",";","s","e","s","s","i","o","n","=","s","o","m","e","i","d","\r","\n">>,
    <<"F","o","r","w","a","r","d","e","d",":"," ","b","y","=","1","0",".","0",".","0",".","1",","," ","f","o","r","=","8",".","8",".","8",".","8","\r","\n">>,
    <<"F","o","r","w","a","r","d","e","d",":"," ","F","o","r","=","8",".","8",".","8",".","8",";","p","r","o","t","o","=","h","t","t","p","\r","\n">>,
    <<"X","-","F","o","r","w","a","r","d","e","d","-","F","o","r",":"," ","9",".","9",".","9",".","9",","," ","7",".","7",".","7",".","7","\r","\n">>,
    <<"F","o","o",":","a",","," ","b",":","c","\r","\n">>
  }

\* what follows the header lines: nothing, or a line without ':' and body bytes
Tails ==
  {
    <<>>,
    <<"\r","\n">>,
    <<"\r","\n","a","b","c">>,
    <<"x","\r","\n","a","b","c","d","e","f","g">>
  }

\* the header blocks: at most MaxHeaders lines
RECURSIVE HeaderBlocks(_)
HeaderBlocks(n) ==
  IF n = 0 THEN {<<>>}
  ELSE HeaderBlocks(n - 1) \cup
       {b \o l : b \in HeaderBlocks(n - 1), l \in HeaderLines}

\* BufReader::read_line: through the next "\n", or to the end of the stream
ReadLine(w, p) ==
  LET rest == SubSeq(w, p + 1, Len(w))
      i == FirstIn(rest, {"\n"})
  IN IF i = 0 THEN rest ELSE SubSeq(rest, 1, i)

\* a faulty variant of ParseStartLine: the first three of three or more fragments
ParseStartLineLenient(line) ==
  LET fragments == Split(line, {" "}) IN
  IF Len(fragments) < 3
  THEN [err |-> "start-line", method |-> <<>>, path |-> <<>>, version |-> <<>>]
  ELSE IF MethodFromStr(fragments[1]) = <<>>
  THEN [err |-> "method", method |-> <<>>, path |-> <<>>, version |-> <<>>]
  ELSE [err |-> "", method |-> MethodFromStr(fragments[1]),
        path |-> <<fragments[2]>>, version |-> <<fragments[3]>>]

\* the Version state's match on line.split(" "): the fields, or the error
ParseStartLine(line) ==
  LET fragments == Split(line, {" "}) IN
  IF Len(fragments) # 3
  THEN [err |-> "start-line", method |-> <<>>, path |-> <<>>, version |-> <<>>]
  ELSE IF MethodFromStr(fragments[1]) = <<>>
  THEN [err |-> "method", method |-> <<>>, path |-> <<>>, version |-> <<>>]
  ELSE [err |-> "", method |-> MethodFromStr(fragments[1]),
        path |-> <<fragments[2]>>, version |-> <<fragments[3]>>]

\* a faulty variant of HeaderValues: a list header is not split
HeaderValuesUnsplit(name, val) == <<val>>

\* the values a header line contributes: split on the delimiter of a known
\* list header, each piece trimmed; one value otherwise
HeaderValues(name, val) ==
  LET delim == KnownListDelim(ToLower(name)) IN
  IF delim # <<>>
  THEN LET pieces == Split(val, {delim[1]}) IN
       [i \in 1..Len(pieces) |-> Trim(pieces[i])]
  ELSE <<val>>

\* the same with the table a task finds behind the static
HeaderValuesIn(tbl, name, val) ==
  LET delim == KnownListDelimIn(tbl, ToLower(name)) IN
  IF delim # <<>>
  THEN LET pieces == Split(val, {delim[1]}) IN
       [i \in 1..Len(pieces) |-> Trim(pieces[i])]
  ELSE <<val>>

\* a faulty variant of ParseHeaderLine: only a blank line ends the header
\* block, a line without ':' is a header without a value
ParseHeaderLineBlankEnds(line) ==
  LET nv == SplitOnce(line, ":") IN
  IF Trim(line) = <<>>
  THEN [done |-> TRUE, err |-> "", name |-> <<>>, val |-> <<>>, len |-> <<>>,
        vals |-> <<>>]
  ELSE IF nv = <<>>
  THEN [done |-> FALSE, err |-> "", name |-> line, val |-> <<>>, len |-> <<>>,
        vals |-> <<<<>>>>]
  ELSE [done |-> FALSE, err |-> "", name |-> nv[1], val |-> Trim(nv[2]),
        len |-> <<>>, vals |-> <<Trim(nv[2])>>]

\* a faulty variant of ParseHeaderLine: the end of the stream inside the
\* header block is an error
ParseHeaderLineNeedsTerminator(line) ==
  LET nv == SplitOnce(line, ":") IN
  IF line = <<>>
  THEN [done |-> FALSE, err |-> "unterminated", name |-> <<>>, val |-> <<>>,
        len |-> <<>>, vals |-> <<>>]
  ELSE IF nv = <<>>
  THEN [done |-> TRUE, err |-> "", name |-> <<>>, val |-> <<>>, len |-> <<>>,
        vals |-> <<>>]
  ELSE [done |-> FALSE, err |-> "", name |-> nv[1], val |-> Trim(nv[2]),
        len |-> <<>>, vals |-> <<Trim(nv[2])>>]

\* the Headers state on one line: the header block ends (done), or the line
\* is a header (name, trimmed value, the Content-Length it declares)
ParseHeaderLine(line) ==
  LET nv == SplitOnce(line, ":") IN
  IF nv = <<>>
  THEN [done |-> TRUE, err |-> "", name |-> <<>>, val |-> <<>>, len |-> <<>>,
        vals |-> <<>>]
  ELSE
    LET name == nv[1]
        val == Trim(nv[2])
        isLen == ToLower(name) = s_content_length
    IN [done |-> FALSE,
        err |-> IF isLen /\ ParseUsize(val) = <<>> THEN "content-length" ELSE "",
        name |-> name, val |-> val,
        len |-> IF isLen THEN ParseUsize(val) ELSE <<>>,
        vals |-> HeaderValues(name, val)]

\* a faulty variant of BuildRequest: size is the length of the body read
BuildRequestSizeOfBody(m, p, v, h, len, b) ==
  LET hostVals == HeadersGet(h, s_Host)
      host == IF hostVals = <<>> \/ hostVals[1] = <<>> THEN <<>> ELSE <<hostVals[1][1]>>
      url == IF host = <<>> \/ p = <<>> THEN <<>> ELSE UrlParse(s_http \o host[1] \o p[1])
  IN
  IF host = <<>> THEN [err |-> "host", req |-> <<>>]
  ELSE IF p = <<>> THEN [err |-> "path", req |-> <<>>]
  ELSE IF url = <<>> THEN [err |-> "url", req |-> <<>>]
  ELSE [err |-> "",
        req |-> <<[headers |-> h,
                   size |-> Len(b),
                   url |-> url[1],
                   body |-> b,
                   method |-> IF m = <<>> THEN "HEAD" ELSE m[1],
                   version |-> Trim(IF v = <<>> THEN <<>> ELSE v[1]),
                   remote_ip |-> PeerAddr]>>]

\* what follows the loop: the URL from the Host header and the path, then the
\* Request; err names the failure when there is one
BuildRequest(m, p, v, h, len, b) ==
  LET hostVals == HeadersGet(h, s_Host)
      host == IF hostVals = <<>> \/ hostVals[1] = <<>> THEN <<>> ELSE <<hostVals[1][1]>>
      url == IF host = <<>> \/ p = <<>> THEN <<>> ELSE UrlParse(s_http \o host[1] \o p[1])
  IN
  IF host = <<>> THEN [err |-> "host", req |-> <<>>]
  ELSE IF p = <<>> THEN [err |-> "path", req |-> <<>>]
  ELSE IF url = <<>> THEN [err |-> "url", req |-> <<>>]
  ELSE [err |-> "",
        req |-> <<[headers |-> h,
                   size |-> IF len = <<>> THEN 0 ELSE len[1],
                   url |-> url[1],
                   body |-> b,
                   method |-> IF m = <<>> THEN "HEAD" ELSE m[1],
                   version |-> Trim(IF v = <<>> THEN <<>> ELSE v[1]),
                   remote_ip |-> PeerAddr]>>]

\* the sizes one read call into a buffer of len bytes may return when rem
\* bytes are still to come before the end of the stream: 0 at the end of the
\* stream or for an empty buffer, otherwise whatever part has arrived
ReadSizes(len, rem) ==
  IF len = 0 \/ rem = 0 THEN {0}
  ELSE 1..(IF len < rem THEN len ELSE rem)

\* Request::requester
Requester(req) ==
  LET fwd == HeadersGet(req.headers, s_Forwarded)
      first == IF fwd = <<>> \/ fwd[1] = <<>> THEN <<>> ELSE <<fwd[1][1]>>
      pairs == IF first = <<>> THEN <<>> ELSE Split(first[1], {",", ";"})
      forOf(pair) ==
        LET kv == SplitOnce(ToLower(pair), "=") IN
        IF kv # <<>> /\ Trim(kv[1]) = s_for THEN <<Trim(kv[2])>> ELSE <<>>
      hits == SelectSeq(pairs, LAMBDA pair : forOf(pair) # <<>>)
      xff == HeadersGet(req.headers, s_XForwardedFor)
      xfirst == IF xff = <<>> \/ xff[1] = <<>> THEN <<>> ELSE <<xff[1][1]>>
  IN
  IF hits # <<>> THEN forOf(hits[1])[1]
  ELSE IF xfirst # <<>> THEN Trim(Split(xfirst[1], {","})[1])
  ELSE req.remote_ip

\* parse_request returns Err: nothing of the request is kept
Fail(kind) ==
  /\ state' = "Done"
  /\ error' = <<kind>>
  /\ request' = <<>>

\* the code after the loop, reached from the Body state without suspension
Finish(b) ==
  LET r == BuildRequest(method, path, version, headers, body_len, b) IN
  /\ state' = "Done"
  /\ error' = IF r.err = "" THEN <<>> ELSE <<r.err>>
  /\ request' = r.req

\* RequestReadState::Version: one read_line, which may fail
ReadStartLine ==
  /\ state = "Version"
  /\ \E ioerr \in BOOLEAN :
       LET line == ReadLine(wire, pos)
           r == ParseStartLine(line)
       IN
       /\ lineReads' = lineReads + 1
       /\ visited' = Append(visited, "Version")
       /\ IF ioerr
          THEN /\ Fail("io")
               /\ UNCHANGED <<pos, method, path, version>>
          ELSE /\ pos' = pos + Len(line)
               /\ IF r.err # ""
                  THEN /\ Fail(r.err)
                       /\ UNCHANGED <<method, path, version>>
                  ELSE /\ state' = "Headers"
                       /\ method' = r.method
                       /\ path' = r.path
                       /\ version' = r.version
                       /\ UNCHANGED <<request, error>>
  /\ UNCHANGED <<wire, headers, body_len, body, bodyReads, lastHeader,
                 bodyStart, who>>
  /\ UNCHANGED outsideParser

\* RequestReadState::Headers: one read_line, which may fail
ReadHeaderLine ==
  /\ state = "Headers"
  /\ \E ioerr \in BOOLEAN :
       LET line == ReadLine(wire, pos)
           r == ParseHeaderLine(line)
       IN
       /\ lineReads' = lineReads + 1
       /\ visited' = Append(visited, "Headers")
       /\ IF ioerr
          THEN /\ Fail("io")
               /\ UNCHANGED <<pos, headers, body_len, lastHeader, bodyStart>>
          ELSE /\ pos' = pos + Len(line)
               /\ IF r.done
                  THEN /\ state' = "Body"
                       /\ bodyStart' = <<pos + Len(line)>>
                       /\ UNCHANGED <<headers, body_len, lastHeader, request, error>>
                  ELSE IF r.err # ""
                  THEN /\ Fail(r.err)
                       /\ UNCHANGED <<headers, body_len, lastHeader, bodyStart>>
                  ELSE /\ body_len' = IF r.len # <<>> THEN r.len ELSE body_len
                       /\ headers' = HeadersEntryExtend(headers, r.name, r.vals)
                       /\ lastHeader' = <<[line |-> line, name |-> r.name, vals |-> r.vals]>>
                       /\ UNCHANGED <<state, request, error, bodyStart>>
  /\ UNCHANGED <<wire, method, path, version, body, bodyReads, who>>
  /\ UNCHANGED outsideParser

\* RequestReadState::Body, and the rest of parse_request: no read for a
\* bodiless method or without Content-Length; otherwise a buffer of body_len
\* zero bytes and one read call into it, which may fail
ReadBody ==
  /\ state = "Body"
  /\ visited' = Append(visited, "Body")
  /\ IF method = <<>>
     THEN /\ Fail("no-method")
          /\ UNCHANGED <<pos, body, bodyReads>>
     ELSE IF method[1] \in BodilessMethods \/ body_len = <<>>
     THEN /\ Finish(body)
          /\ UNCHANGED <<pos, body, bodyReads>>
     ELSE \E ioerr \in BOOLEAN :
            \E k \in ReadSizes(body_len[1], Len(wire) - pos) :
              LET buf == [i \in 1..body_len[1] |->
                            IF i <= k THEN wire[pos + i] ELSE ZeroByte]
              IN
              IF ioerr
              THEN /\ Fail("io")
                   /\ body' = [i \in 1..body_len[1] |-> ZeroByte]
                   /\ UNCHANGED <<pos, bodyReads>>
              ELSE /\ body' = buf
                   /\ pos' = pos + k
                   /\ bodyReads' = Append(bodyReads, k)
                   /\ Finish(buf)
  /\ UNCHANGED <<wire, method, path, version, headers, body_len, lineReads,
                 lastHeader, bodyStart, who>>
  /\ UNCHANGED outsideParser

\* the caller asks the parsed Request for its requester (main.rs, metrics)
CallRequester ==
  /\ state = "Done"
  /\ request # <<>>
  /\ who = <<>>
  /\ who' = <<Requester(request[1])>>
  /\ UNCHANGED <<wire, pos, state, method, path, version, headers, body_len,
                 body, request, error, lineReads, bodyReads, lastHeader,
                 visited, bodyStart>>
  /\ UNCHANGED outsideParser

s_UserAgent == <<"U","s","e","r","-","A","g","e","n","t">>
s_unknown == <<"u","n","k","n","o","w","n">>

\* what the wrapped future resolved to: the Result parse_request returned
ParseResult ==
  IF error # <<>> THEN [ok |-> FALSE, error |-> error[1]]
  ELSE [ok |-> TRUE, req |-> request[1]]

\* the label values of the request metrics: method, requester, the first
\* User-Agent value or "unknown", version
CommonLabels(req) ==
  LET ua == HeadersGet(req.headers, s_UserAgent) IN
  <<req.method, Requester(req),
    IF ua = <<>> \/ ua[1] = <<>> THEN s_unknown ELSE ua[1][1],
    req.version>>

\* a faulty variant of ObserveRequestOf: a request without User-Agent is
\* turned into an error
ObserveRequestOfStrict(res) ==
  IF ~res.ok
  THEN [ret |-> res,
        recorded |-> <<[metric |-> "http_request_parse_failures",
                        labels |-> <<>>, value |-> "elapsed"]>>]
  ELSE IF HeadersGet(res.req.headers, s_UserAgent) = <<>>
  THEN [ret |-> [ok |-> FALSE, error |-> "user-agent"], recorded |-> <<>>]
  ELSE [ret |-> [ok |-> TRUE, req |-> res.req], recorded |-> <<>>]

\* observe_request on the Result res of the wrapped parse: what it returns
\* and what it records (the time elapsed is not modelled)
ObserveRequestOf(res) ==
  IF ~res.ok
  THEN [ret |-> res,
        recorded |-> <<[metric |-> "http_request_parse_failures",
                        labels |-> <<>>, value |-> "elapsed"]>>]
  ELSE [ret |-> [ok |-> TRUE, req |-> res.req],
        recorded |->
          <<[metric |-> "http_request", labels |-> CommonLabels(res.req),
             value |-> "elapsed"],
            [metric |-> "http_request_body_size",
             labels |-> CommonLabels(res.req), value |-> res.req.size],
            [metric |-> "http_request_path_length",
             labels |-> CommonLabels(res.req), value |-> res.req.size]>>]

\* nothing observed
ObserveIdle ==
  /\ observed = <<>>
  /\ o_metrics = <<>>

\* process_socket: observe_request(parse_request(..)).await, once the parse
\* has resolved
ObserveRequest ==
  /\ state = "Done"
  /\ observed = <<>>
  /\ \E r \in {ObserveRequestOf(ParseResult)} :
       /\ observed' = <<r.ret>>
       /\ o_metrics' = r.recorded
  /\ UNCHANGED parserVars
  /\ UNCHANGED outsideObserve

\* the first lines combined with every header block: a bodiless method and
\* the two methods that take a body
MainStartLines ==
  {
    <<"G","E","T"," ","/"," ","H","T","T","P","/","1",".","1","\r","\n">>,
    <<"P","O","S","T"," ","/"," ","H","T","T","P","/","1",".","1","\r","\n">>,
    <<"P","U","T"," ","/","a","/"," ","H","T","T","P","/","1",".","1","\r","\n">>
  }

\* the requests a modelled peer sends: the main first lines with or without
\* any host line and with every header block, and every first line with the
\* plain host line and at most one more header line
Wires ==
  {s \o hl \o b \o t : s \in MainStartLines, hl \in HostLines \cup {<<>>},
                       b \in HeaderBlocks(MaxHeaders), t \in Tails}
  \cup
  {s \o <<"H","o","s","t",":"," ","h","\r","\n">> \o b \o t : s \in StartLines, b \in HeaderBlocks(1), t \in Tails}

\* the fields of a parser at its start
ParserFresh ==
  /\ pos = 0
  /\ method = <<>>
  /\ path = <<>>
  /\ version = <<>>
  /\ headers = EmptyHeaders
  /\ body_len = <<>>
  /\ body = <<>>
  /\ request = <<>>
  /\ error = <<>>
  /\ lineReads = 0
  /\ bodyReads = <<>>
  /\ lastHeader = <<>>
  /\ visited = <<>>
  /\ bodyStart = <<>>
  /\ who = <<>>

ParserInit ==
  /\ wire \in Wires
  /\ state = "Version"
  /\ ParserFresh

\* no connection: the parser never runs
ParserIdle ==
  /\ wire = <<>>
  /\ state = "Idle"
  /\ ParserFresh

(***************************************************************************)
(* A Headers value filled by Headers::add (as the tests do) and by header  *)
(* lines (as the parser does).                                             *)
(***************************************************************************)

\* the most additions made to the modelled header map
MaxAdds == 3

s_Cookie == <<"C","o","o","k","i","e">>

\* the names Headers::add is called with
AddNames == {s_Cookie, <<"c","o","o","k","i","e">>, s_Host}

\* the values Headers::add is called with
AddValues == {<<"a","=","1">>, <<"b","=","2">>}

\* the header lines filled in as the parser does
AddLines ==
  {
    <<"C","o","o","k","i","e",":"," ","a","s","d","f","=","1","2","3",";"," ","f","g","h","j","=","4","5","6","7",";","s","e","s","s","i","o","n","=","s","o","m","e","i","d","\r","\n">>,
    <<"C","o","o","k","i","e",":"," ","a","=","1","\r","\n">>,
    <<"F","o","o",":","a",","," ","b",":","c","\r","\n">>
  }

HeaderMapInit ==
  /\ hmap = EmptyHeaders
  /\ hlog = <<>>

\* headers.add(k, v)
HeadersAddCall ==
  /\ Len(hlog) < MaxAdds
  /\ \E k \in AddNames, v \in AddValues :
       /\ hmap' = HeadersAdd(hmap, k, v)
       /\ hlog' = Append(hlog, <<k, v>>)
  /\ UNCHANGED outsideHeaderMap

\* the Headers state's insertion of one header line
HeadersLineCall ==
  /\ Len(hlog) < MaxAdds
  /\ \E line \in AddLines :
       LET r == ParseHeaderLine(line) IN
       /\ ~r.done
       /\ r.err = ""
       /\ hmap' = HeadersEntryExtend(hmap, r.name, r.vals)
       /\ hlog' = hlog \o [i \in 1..Len(r.vals) |-> <<r.name, r.vals[i]>>]
  /\ UNCHANGED outsideHeaderMap

(***************************************************************************)
(* The response builder (lib/http/response.rs).                            *)
(***************************************************************************)

\* the most calls made on the modelled builder
MaxCalls == 4

s_Server == <<"S","e","r","v","e","r">>
s_Date == <<"D","a","t","e">>
s_ContentLength == <<"C","o","n","t","e","n","t","-","L","e","n","g","t","h">>
s_ContentType == <<"C","o","n","t","e","n","t","-","T","y","p","e">>

\* "httpot", followed by "/" and CARGO_PKG_VERSION when the process has it
ServerValues == {<<"h","t","t","p","o","t">>, <<"h","t","t","p","o","t","/","0",".","1",".","0">>}

\* Utc::now() in the format of the Date header
DateValues == {<<"M","o","n",","," ","0","2"," ","N","o","v"," ","2","0","2","6"," ","2","1",":","5","1",":","0","0"," ","G","M","T">>}

\* default_headers()
DefaultHeaders(server, date) ==
  HeadersAdd(HeadersAdd(EmptyHeaders, s_Server, server), s_Date, date)

\* the supported status codes: the discriminants of enum StatusCode
StatusCodes ==
  {200, 201, 202, 204, 301, 302, 303, 307, 308, 400, 401, 403, 404, 405, 408,
   410, 411, 413, 418, 500, 501, 505}

\* a faulty variant of StatusCodeFromI64: every number is taken as a status
StatusCodeFromI64Any(n) == <<n>>

\* StatusCode::from_i64: None for a number that is no discriminant
StatusCodeFromI64(n) == IF n \in StatusCodes THEN <<n>> ELSE <<>>

\* the names add_header is called with
BuilderNames == {s_ContentLength, s_ContentType, s_Server}

\* the lists of values add_headers is called with
BuilderValueLists == {<<>>, <<<<"7">>, <<"t","e","x","t","/","h","t","m","l">>>>}

\* the values add_header is called with
BuilderValues == {<<"7">>, <<"t","e","x","t","/","h","t","m","l">>}

\* the numbers status_code is called with
StatusInputs == {200, 404, 999}

\* the bytes of a two-byte character of UTF-8 text (U+00E9)
Utf8TwoByteChar == <<"xC3", "xA9">>

\* the bodies body is called with: as_ref() gives the bytes of a text, so a
\* character outside ASCII is several bytes
Bodies ==
  {<<>>, <<"a","b","c">>, <<"a","b","c","d","e">>, <<"a">> \o Utf8TwoByteChar}

\* body(): add_header("Content-Length", len), on the headers h
BuilderSetBody(h, b) == HeadersAdd(h, s_ContentLength, UsizeToString(Len(b)))

\* the builder after default(out), ok(out) or not_found(out), or the empty
\* builder of the derived Default (no header map yet)
BuilderInit ==
  /\ b_status_code \in {<<>>, <<200>>, <<404>>}
  /\ b_body = <<>>
  /\ \/ \E server \in ServerValues, date \in DateValues :
          b_headers = <<DefaultHeaders(server, date)>>
     \/ b_headers = <<>> /\ b_status_code = <<>>
  /\ b_version = <<>>
  /\ built = <<>>
  /\ b_calls = <<>>

\* no builder in use
BuilderIdle ==
  /\ b_status_code = <<>>
  /\ b_body = <<>>
  /\ b_headers = <<>>
  /\ b_version = <<>>
  /\ built = <<>>
  /\ b_calls = <<>>

\* a faulty variant of BuilderHeaders: an empty map when there were none
BuilderHeadersUnseeded ==
  IF b_headers = <<>> THEN {EmptyHeaders} ELSE {b_headers[1]}

\* the headers add_header works on: default_headers() when there were none
BuilderHeaders ==
  IF b_headers = <<>>
  THEN {DefaultHeaders(server, date) : server \in ServerValues, date \in DateValues}
  ELSE {b_headers[1]}

\* add_header(name, value)
BuilderAddHeader ==
  /\ Len(b_calls) < MaxCalls
  /\ \E name \in BuilderNames, value \in BuilderValues, h \in BuilderHeaders :
       /\ b_headers' = <<HeadersAdd(h, name, value)>>
       /\ b_calls' = Append(b_calls, <<"add_header", name, value>>)
  /\ UNCHANGED <<b_status_code, b_body, b_version, built>>
  /\ UNCHANGED outsideBuilder

\* add_headers(name, values): add_header for each value in turn, none for
\* an empty list
BuilderAddHeaders ==
  /\ Len(b_calls) < MaxCalls
  /\ \E name \in {s_Server, s_Date}, values \in BuilderValueLists :
       /\ IF values = <<>> THEN UNCHANGED b_headers
          ELSE \E h \in BuilderHeaders :
                 b_headers' = <<HeadersAdd(HeadersAdd(h, name, values[1]), name, values[2])>>
       /\ b_calls' = Append(b_calls, <<"add_headers", name, values>>)
  /\ UNCHANGED <<b_status_code, b_body, b_version, built>>
  /\ UNCHANGED outsideBuilder

\* status_code(n)
BuilderStatusCode ==
  /\ Len(b_calls) < MaxCalls
  /\ \E n \in StatusInputs :
       /\ b_status_code' = StatusCodeFromI64(n)
       /\ b_calls' = Append(b_calls, <<"status_code", n>>)
  /\ UNCHANGED <<b_body, b_headers, b_version, built>>
  /\ UNCHANGED outsideBuilder

\* body(b)
BuilderBody ==
  /\ Len(b_calls) < MaxCalls
  /\ \E b \in Bodies, h \in BuilderHeaders :
       /\ b_body' = <<b>>
       /\ b_headers' = <<BuilderSetBody(h, b)>>
       /\ b_calls' = Append(b_calls, <<"body", b>>)
  /\ UNCHANGED <<b_status_code, b_version, built>>
  /\ UNCHANGED outsideBuilder

\* a faulty variant of Build: a status code never set defaults to 200
BuildDefaultingStatus(sc, b, h, v) ==
  IF b = <<>> THEN [ok |-> FALSE, missing |-> "body"]
  ELSE [ok |-> TRUE,
        status_code |-> IF sc = <<>> THEN 200 ELSE sc[1],
        body |-> b[1],
        headers |-> h,
        version |-> IF v = <<>> THEN <<>> ELSE v[1]]

\* the derived build() on the fields status_code, body, version and the
\* headers h (default_headers() when none were set): an error naming the
\* first field never set, else the Response
Build(sc, b, h, v) ==
  IF sc = <<>> THEN [ok |-> FALSE, missing |-> "status_code"]
  ELSE IF b = <<>> THEN [ok |-> FALSE, missing |-> "body"]
  ELSE [ok |-> TRUE,
        status_code |-> sc[1],
        body |-> b[1],
        headers |-> h,
        version |-> IF v = <<>> THEN <<>> ELSE v[1]]

\* build()
BuilderBuild ==
  /\ Len(b_calls) < MaxCalls
  /\ \E h \in BuilderHeaders :
       built' = <<Build(b_status_code, b_body, h, b_version)>>
  /\ b_calls' = Append(b_calls, <<"build">>)
  /\ UNCHANGED <<b_status_code, b_body, b_headers, b_version>>
  /\ UNCHANGED outsideBuilder

(***************************************************************************)
(* Response serialisation and transmission (lib/http/response.rs).         *)
(***************************************************************************)

\* enum StatusCode: the variants in their order, each with its explicit
\* discriminant if it has one
StatusCodeVariants ==
  << <<"Ok", <<200>>>>, <<"Created", <<>>>>, <<"Accepted", <<>>>>,
     <<"NoContent", <<204>>>>,
     <<"MovedPermanently", <<301>>>>, <<"Found", <<>>>>, <<"SeeOther", <<>>>>,
     <<"TemporaryRedirect", <<307>>>>, <<"PermanentRedirect", <<>>>>,
     <<"BadRequest", <<400>>>>, <<"Unauthorized", <<>>>>,
     <<"Forbidden", <<403>>>>, <<"NotFound", <<>>>>,
     <<"MethodNotAllowed", <<>>>>, <<"RequestTimeout", <<408>>>>,
     <<"Gone", <<410>>>>, <<"LengthRequired", <<411>>>>,
     <<"PayloadTooLarge", <<413>>>>, <<"ImATeapot", <<418>>>>,
     <<"InternalServerError", <<500>>>>, <<"NotImplemented", <<501>>>>,
     <<"HTTPVersionNotSupported", <<505>>>> >>

StatusCodeNames == {StatusCodeVariants[i][1] : i \in 1..Len(StatusCodeVariants)}

\* the position of a variant in the enum
StatusCodeIndex(name) ==
  CHOOSE i \in 1..Len(StatusCodeVariants) : StatusCodeVariants[i][1] = name

RECURSIVE DiscriminantAt(_)
\* the discriminant of the i-th variant: the explicit one, else one more than
\* that of the variant before
DiscriminantAt(i) ==
  IF StatusCodeVariants[i][2] # <<>> THEN StatusCodeVariants[i][2][1]
  ELSE IF i = 1 THEN 0
  ELSE DiscriminantAt(i - 1) + 1

\* a faulty variant of StatusCodeAsI32: the position of the variant
StatusCodeOrdinal(name) == StatusCodeIndex(name) - 1

\* self.status_code as i32
StatusCodeAsI32(name) == DiscriminantAt(StatusCodeIndex(name))

\* StatusCode::to_string: the reason phrase
ReasonPhrase(name) ==
  CASE name = "Ok" -> <<"O","K">>
    [] name = "Created" -> <<"C","r","e","a","t","e","d">>
    [] name = "Accepted" -> <<"A","c","c","e","p","t","e","d">>
    [] name = "NoContent" -> <<"N","o"," ","C","o","n","t","e","n","t">>
    [] name = "MovedPermanently" -> <<"M","o","v","e","d"," ","P","e","r","m","a","n","e","n","t","l","y">>
    [] name = "Found" -> <<"F","o","u","n","d">>
    [] name = "SeeOther" -> <<"S","e","e"," ","O","t","h","e","r">>
    [] name = "TemporaryRedirect" -> <<"T","e","m","p","o","r","a","r","y"," ","R","e","d","i","r","e","c","t">>
    [] name = "PermanentRedirect" -> <<"P","e","r","m","a","n","e","n","t"," ","R","e","d","i","r","e","c","t">>
    [] name = "BadRequest" -> <<"B","a","d","R","e","q","u","e","s","t">>
    [] name = "Unauthorized" -> <<"U","n","a","u","t","h","o","r","i","z","e","d">>
    [] name = "Forbidden" -> <<"F","o","r","b","i","d","d","e","n">>
    [] name = "NotFound" -> <<"N","o","t"," ","F","o","u","n","d">>
    [] name = "MethodNotAllowed" -> <<"M","e","t","h","o","d"," ","N","o","t"," ","A","l","l","o","w","e","d">>
    [] name = "RequestTimeout" -> <<"R","e","q","u","e","s","t"," ","T","i","m","e","o","u","t">>
    [] name = "Gone" -> <<"G","o","n","e">>
    [] name = "LengthRequired" -> <<"L","e","n","g","t","h"," ","R","e","q","u","i","r","e","d">>
    [] name = "PayloadTooLarge" -> <<"P","a","y","l","o","a","d"," ","T","o","o"," ","L","a","r","g","e">>
    [] name = "ImATeapot" -> <<"I","m"," ","A"," ","T","e","a","p","o","t">>
    [] name = "InternalServerError" -> <<"I","n","t","e","r","n","a","l"," ","S","e","r","v","e","r"," ","E","r","r","o","r">>
    [] name = "NotImplemented" -> <<"N","o","t"," ","I","m","p","l","e","m","e","n","t","e","d">>
    [] name = "HTTPVersionNotSupported" -> <<"H","T","T","P"," ","V","e","r","s","i","o","n"," ","n","o","t"," ","S","u","p","p","o","r","t","e","d">>

s_HTTP11 == <<"H","T","T","P","/","1",".","1">>
s_CRLF == <<"\r", "\n">>

\* the first line: version, numeric code, reason phrase
StatusLine(v, name) ==
  (IF v = <<>> THEN s_HTTP11 ELSE v[1]) \o <<" ">>
    \o UsizeToString(StatusCodeAsI32(name)) \o <<" ">> \o ReasonPhrase(name)

\* v.as_slice().join(", ")
HeaderValueText(values) == Join(values, <<",", " ">>)

\* format!("{}: {}", k, v.join(", "))
HeaderLine(k, values) == k \o <<":", " ">> \o HeaderValueText(values)

\* the bytes that are not ASCII: leading bytes of two- and three-byte
\* characters, continuation bytes, and a byte no UTF-8 text holds
Utf8Lead2 == {"xC3"}
Utf8Lead3 == {"xE2"}
Utf8Cont == {"xA9", "x82", "xAC"}
Utf8Never == {"xFF"}

\* a faulty variant of Utf8Valid: every byte sequence passes
Utf8ValidAlways(b) == TRUE

RECURSIVE Utf8Valid(_)
\* String::from_utf8 succeeds: every leading byte has its continuation bytes
Utf8Valid(b) ==
  IF b = <<>> THEN TRUE
  ELSE IF Head(b) \in Utf8Lead2
  THEN Len(b) >= 2 /\ b[2] \in Utf8Cont /\ Utf8Valid(SubSeq(b, 3, Len(b)))
  ELSE IF Head(b) \in Utf8Lead3
  THEN /\ Len(b) >= 3
       /\ b[2] \in Utf8Cont
       /\ b[3] \in Utf8Cont
       /\ Utf8Valid(SubSeq(b, 4, Len(b)))
  ELSE IF Head(b) \in Utf8Cont \cup Utf8Never THEN FALSE
  ELSE Utf8Valid(Tail(b))

\* the orders a HashMap of these names may be iterated in
IterOrders(S) ==
  {f \in [1..Cardinality(S) -> S] : \A i, j \in 1..Cardinality(S) : f[i] = f[j] => i = j}

\* BaseResponse::into_string, the headers iterated in the order given:
\* None for Err, or Some(text)
IntoString(r, ord) ==
  LET lines == <<StatusLine(r.version, r.status_code)>>
                 \o [i \in 1..Len(ord) |-> HeaderLine(ord[i], r.headers[ord[i]])]
                 \o << <<>> >>
  IN
  IF ~Utf8Valid(r.body) THEN <<>>
  ELSE <<Join(lines \o <<r.body>>, s_CRLF)>>

\* Headers::into_string, the map iterated in the order given
HeadersIntoString(h, ord) ==
  LET linesOf(k) ==
        IF Len(h[k]) = 0 THEN <<>>
        ELSE IF Len(h[k]) > 1
        THEN (IF KnownListDelim(ToLower(k)) # <<>>
              THEN <<k \o <<":", " ">> \o Join(h[k], KnownListDelim(ToLower(k)))>>
              ELSE [i \in 1..Len(h[k]) |-> k \o <<":", " ">> \o h[k][i]])
        ELSE <<k \o <<":", " ">> \o h[k][1]>>
      acc[i \in 0..Len(ord)] == IF i = 0 THEN <<>> ELSE acc[i - 1] \o linesOf(ord[i])
  IN Join(acc[Len(ord)], <<"\n">>)

\* the most bytes a try_write takes short of the whole slice
MaxWrite == 2

\* the results of one try_write of a slice of rem bytes: Ok(k), the socket
\* having taken the first k bytes (a few, or all); WouldBlock; another error
TryWriteResults(rem) ==
  {[kind |-> "ok", k |-> k] : k \in {j \in 0..rem : j <= MaxWrite \/ j = rem}}
    \cup {[kind |-> "wouldblock", k |-> 0], [kind |-> "error", k |-> 0]}

\* a faulty variant of WriteLoopStep: a partial write leaves the offset
WriteLoopStepNoAdvance(n, len, res) ==
  IF res.kind = "ok"
  THEN (IF res.k + n < len THEN [n |-> n, at |-> "loop"] ELSE [n |-> n, at |-> "done"])
  ELSE IF res.kind = "wouldblock" THEN [n |-> n, at |-> "loop"]
  ELSE [n |-> n, at |-> "failed"]

\* a faulty variant of WriteLoopStep: an error of try_write is retried as
\* WouldBlock is
WriteLoopStepRetryOnError(n, len, res) ==
  IF res.kind = "ok"
  THEN (IF res.k + n < len THEN [n |-> n + res.k, at |-> "loop"]
        ELSE [n |-> n, at |-> "done"])
  ELSE [n |-> n, at |-> "loop"]

\* a faulty variant of WriteLoopStep: WouldBlock ends the loop as any other
\* error does
WriteLoopStepNoRetry(n, len, res) ==
  IF res.kind = "ok"
  THEN (IF res.k + n < len THEN [n |-> n + res.k, at |-> "loop"]
        ELSE [n |-> n, at |-> "done"])
  ELSE [n |-> n, at |-> "failed"]

\* one turn of the write loop of send and of write_all, at offset n of a
\* buffer of len bytes, on the result of its try_write
WriteLoopStep(n, len, res) ==
  IF res.kind = "ok"
  THEN (IF res.k + n < len THEN [n |-> n + res.k, at |-> "loop"]
        ELSE [n |-> n, at |-> "done"])
  ELSE IF res.kind = "wouldblock" THEN [n |-> n, at |-> "loop"]
  ELSE [n |-> n, at |-> "failed"]

RECURSIVE AddAll(_, _)
\* add_header for each of the (name, value) pairs, in order
AddAll(h, adds) ==
  IF adds = <<>> THEN h
  ELSE AddAll(HeadersAdd(h, adds[1][1], adds[1][2]), Tail(adds))

s_Allow == <<"A","l","l","o","w">>
s_GET == <<"G","E","T">>
s_OPTIONS == <<"O","P","T","I","O","N","S">>
s_texthtml == <<"t","e","x","t","/","h","t","m","l">>
s_HTTP10 == <<"H","T","T","P","/","1",".","0">>

\* a Response as the builder makes it: the default headers, the headers
\* added before the body, the Content-Length of body(), those added after
ResponseOf(name, v, before, b, after) ==
  [status_code |-> name,
   version |-> v,
   body |-> b,
   headers |->
     AddAll(BuilderSetBody(AddAll(DefaultHeaders(<<"h","t","t","p","o","t">>, CHOOSE d \in DateValues : TRUE),
                                  before), b),
            after)]

\* the responses sent: those of the router and the stock responses, and
\* ones with a version, a body that is not text, a repeated header
SendResponses ==
  {
    ResponseOf("Ok", <<>>, <<>>, <<"a","b","c">>, <<>>),
    ResponseOf("NotFound", <<>>, << <<s_ContentType, s_texthtml>> >>,
               <<"a">> \o Utf8TwoByteChar, <<>>),
    ResponseOf("MethodNotAllowed", <<>>, <<>>, <<"a","b">>,
               << <<s_Allow, s_GET>>, <<s_Allow, s_OPTIONS>> >>),
    ResponseOf("Ok", <<>>,
               << <<s_ContentType, s_texthtml>>, <<s_ContentLength, <<"2">>>> >>,
               <<"a","b">>, <<>>),
    ResponseOf("Ok", <<s_HTTP10>>, <<>>, <<>>,
               << <<s_ContentType, s_texthtml>>, <<s_ContentType, s_texthtml>> >>),
    ResponseOf("Ok", <<>>, <<>>, <<"a", "xFF">>, <<>>),
    ResponseOf("NotFound", <<>>, <<>>, <<"xC3">>, <<>>)
  }

SendIdle ==
  /\ resp = <<>>
  /\ order = <<>>
  /\ send_at = "Idle"
  /\ send_buf = <<>>
  /\ send_n = 0
  /\ send_sent = <<>>
  /\ send_error = <<>>
  /\ send_tried = FALSE
  /\ send_ioerr = FALSE
  /\ send_after = 0

\* a Response about to be sent
SendInit ==
  /\ \E r \in SendResponses : resp = <<r>>
  /\ order = <<>>
  /\ send_at = "Start"
  /\ send_buf = <<>>
  /\ send_n = 0
  /\ send_sent = <<>>
  /\ send_error = <<>>
  /\ send_tried = FALSE
  /\ send_ioerr = FALSE
  /\ send_after = 0

\* send: let buf = self.to_string()?
SendToString ==
  /\ send_at = "Start"
  /\ \E ord \in IterOrders(DOMAIN resp[1].headers) :
       LET r == IntoString(resp[1], ord) IN
       /\ order' = ord
       /\ IF r = <<>>
          THEN /\ send_at' = "Err"
               /\ send_error' = <<"utf8">>
               /\ send_buf' = send_buf
          ELSE /\ send_at' = "Writable"
               /\ send_error' = send_error
               /\ send_buf' = r
  /\ UNCHANGED <<resp, send_n, send_sent, send_tried, send_ioerr, send_after>>
  /\ UNCHANGED outsideSend

\* send: self.output.writable().await
SendWritable ==
  /\ send_at = "Writable"
  /\ \E ok \in BOOLEAN :
       /\ IF ok
          THEN send_at' = "TryWrite" /\ send_error' = send_error
          ELSE send_at' = "Err" /\ send_error' = <<"writable">>
       /\ send_ioerr' = (send_ioerr \/ ~ok)
  /\ send_after' = IF send_ioerr THEN send_after + 1 ELSE send_after
  /\ UNCHANGED <<resp, order, send_buf, send_n, send_sent, send_tried>>
  /\ UNCHANGED outsideSend

\* send: self.output.try_write(&buf[n..]) and the match on its result
SendTryWrite ==
  /\ send_at = "TryWrite"
  /\ \E res \in TryWriteResults(Len(send_buf[1]) - send_n) :
       LET st == WriteLoopStep(send_n, Len(send_buf[1]), res) IN
       /\ send_sent' = send_sent \o SubSeq(send_buf[1], send_n + 1, send_n + res.k)
       /\ send_n' = st.n
       /\ send_tried' = TRUE
       /\ send_at' = (CASE st.at = "loop" -> "Writable"
                        [] st.at = "done" -> "Ok"
                        [] st.at = "failed" -> "Err")
       /\ send_error' = IF st.at = "failed" THEN <<"write">> ELSE send_error
       /\ send_ioerr' = (send_ioerr \/ res.kind = "error")
  /\ send_after' = IF send_ioerr THEN send_after + 1 ELSE send_after
  /\ UNCHANGED <<resp, order, send_buf>>
  /\ UNCHANGED outsideSend

(***************************************************************************)
(* The service: the accept loops and the task of each connection           *)
(* (main.rs listen_loop and process_socket; metrics/mod.rs run,            *)
(* process_req, four_hundred and write_all).                               *)
(***************************************************************************)

\* the most connections accepted, and the most accept calls that return
MaxConns == 2
MaxAccepts == 3

\* how parse_request ends: Ok, or the error it returns
ParseOutcomes ==
  {"ok", "io", "start-line", "method", "content-length", "host", "url"}

\* the bytes of a serialised response (resp.as_bytes())
ServiceResponse == <<"r1", "r2", "r3">>

\* the accept loop after a failed accept: warn!, continue
AfterAcceptError == "Listening"

\* a faulty variant of AfterTask: a failed task stops the loop
AfterTaskStopOnErr(l, result) == IF result = "Err" THEN "Stopped" ELSE l

\* the accept loop after a spawned task has ended: the result is logged
AfterTask(l, result) == l

\* a faulty variant of AfterParse: a failed parse is dispatched all the same
AfterParseDispatch(kind, outcome, supported) ==
  IF kind = "honeypot" THEN "Route"
  ELSE IF supported THEN "Build" ELSE "FourHundred"

\* where a handler goes after parse_request(...).await?: out with the error,
\* or on to the router (honeypot) or to the metrics response, 400 for
\* anything but GET / and GET /metrics
AfterParse(kind, outcome, supported) ==
  IF outcome # "ok" THEN "Done"
  ELSE IF kind = "honeypot" THEN "Route"
  ELSE IF supported THEN "Build" ELSE "FourHundred"

\* the task spawned for an accepted socket, at the start of its handler
NewConn(kind, failures) ==
  [kind |-> kind, at |-> "Parse", result |-> "", error |-> "", parse |-> "",
   resp |-> <<>>, buf |-> <<>>, n |-> 0, sent |-> <<>>, timer |-> "none",
   seen_failures |-> failures]

\* the handler returns: the task ends
EndConn(c, result, why) ==
  [c EXCEPT !.at = "Done", !.result = result, !.error = why]

\* the connections whose task ended with an error
FailedConns == {i \in 1..Len(conns) : conns[i].result = "Err"}

ServiceIdle ==
  /\ listener = "Idle"
  /\ conns = <<>>
  /\ accepts = <<>>

\* both listeners bound, no connection yet
ServiceInit ==
  /\ listener = "Listening"
  /\ conns = <<>>
  /\ accepts = <<>>

\* listener.accept().await returns a socket: a task is spawned for it
Accept ==
  /\ listener = "Listening"
  /\ Len(conns) < MaxConns
  /\ Len(accepts) < MaxAccepts
  /\ \E kind \in {"honeypot", "metrics"} :
       conns' = Append(conns, NewConn(kind, Cardinality(FailedConns)))
  /\ accepts' = Append(accepts, "ok")
  /\ UNCHANGED listener
  /\ UNCHANGED outsideService

\* listener.accept().await returns an error
AcceptFail ==
  /\ listener = "Listening"
  /\ Len(accepts) < MaxAccepts
  /\ listener' = AfterAcceptError
  /\ accepts' = Append(accepts, "fail")
  /\ UNCHANGED conns
  /\ UNCHANGED outsideService

\* a step of the task of connection i that takes it to the record c
ConnStep(i, c) ==
  /\ conns' = [conns EXCEPT ![i] = c]
  /\ listener' = IF c.at = "Done" THEN AfterTask(listener, c.result) ELSE listener
  /\ UNCHANGED accepts
  /\ UNCHANGED outsideService

\* parse_request(&addr, &mut r).await?
ConnParse ==
  \E i \in 1..Len(conns) :
    /\ conns[i].at = "Parse"
    /\ \E outcome \in ParseOutcomes, supported \in BOOLEAN :
         LET to == AfterParse(conns[i].kind, outcome, supported)
             c == [conns[i] EXCEPT !.parse = outcome]
         IN
         ConnStep(i, IF to = "Done" THEN EndConn(c, "Err", outcome)
                     ELSE [c EXCEPT !.at = to])

\* a faulty variant of AfterRouter: an error of the router is serialised and
\* written all the same
AfterRouterIgnoreErr(ok) == "Serialize"

\* where process_socket goes after router::router(&req).await?: out with
\* the error, or on to the serialisation of the Response returned
AfterRouter(ok) == IF ok THEN "Serialize" ELSE "Done"

\* process_socket: let resp = router::router(&req).await?
HoneypotRoute ==
  \E i \in 1..Len(conns) :
    /\ conns[i].at = "Route"
    /\ \E ok \in BOOLEAN :
         LET to == AfterRouter(ok)
             c == IF ok THEN [conns[i] EXCEPT !.resp = <<"response">>] ELSE conns[i]
         IN
         ConnStep(i, IF to = "Done" THEN EndConn(c, "Err", "router")
                     ELSE [c EXCEPT !.at = to])

\* process_socket: resp.as_bytes()?, the argument of try_write, evaluated
\* before the call
HoneypotSerialize ==
  \E i \in 1..Len(conns) :
    /\ conns[i].at = "Serialize"
    /\ \E ok \in BOOLEAN :
         ConnStep(i, IF ok THEN [conns[i] EXCEPT !.at = "Write", !.buf = <<ServiceResponse>>]
                     ELSE EndConn(conns[i], "Err", "utf8"))

\* process_socket: w.try_write(&resp.as_bytes()?)?; then Ok(())
HoneypotWrite ==
  \E i \in 1..Len(conns) :
    /\ conns[i].at = "Write"
    /\ \E res \in TryWriteResults(Len(conns[i].buf[1])) :
         ConnStep(i, IF res.kind = "ok"
                     THEN EndConn([conns[i] EXCEPT !.sent = SubSeq(conns[i].buf[1], 1, res.k)],
                                  "Ok", "")
                     ELSE EndConn(conns[i], "Err", "write"))

\* four_hundred: build()?, w.try_write(&resp.as_bytes()?)?; then Ok(())
MetricsFourHundred ==
  \E i \in 1..Len(conns) :
    /\ conns[i].at = "FourHundred"
    /\ \E res \in TryWriteResults(Len(ServiceResponse)) :
         ConnStep(i, IF res.kind = "ok"
                     THEN EndConn([conns[i] EXCEPT !.buf = <<ServiceResponse>>,
                                                   !.sent = SubSeq(ServiceResponse, 1, res.k)],
                                  "Ok", "")
                     ELSE EndConn([conns[i] EXCEPT !.buf = <<ServiceResponse>>], "Err", "write"))

\* process_req: w.writable().await?, the metrics text, build()?, as_bytes()?,
\* then into select! with the 5 second sleep
MetricsBuild ==
  \E i \in 1..Len(conns) :
    /\ conns[i].at = "Build"
    /\ \E ok \in BOOLEAN :
         ConnStep(i, IF ok
                     THEN [conns[i] EXCEPT !.at = "LoopWritable",
                                           !.buf = <<ServiceResponse>>,
                                           !.timer = "armed"]
                     ELSE EndConn(conns[i], "Err", "build"))

\* write_all: w.writable().await
MetricsLoopWritable ==
  \E i \in 1..Len(conns) :
    /\ conns[i].at = "LoopWritable"
    /\ \E ok \in BOOLEAN :
         ConnStep(i, IF ok THEN [conns[i] EXCEPT !.at = "LoopTryWrite"]
                     ELSE EndConn(conns[i], "Err", "writable"))

\* write_all: w.try_write(&buf[n..]) and the match on its result
MetricsLoopTryWrite ==
  \E i \in 1..Len(conns) :
    /\ conns[i].at = "LoopTryWrite"
    /\ \E res \in TryWriteResults(Len(conns[i].buf[1]) - conns[i].n) :
         LET c == conns[i]
             st == WriteLoopStep(c.n, Len(c.buf[1]), res)
             w == [c EXCEPT !.sent = c.sent \o SubSeq(c.buf[1], c.n + 1, c.n + res.k),
                            !.n = st.n]
         IN
         ConnStep(i, IF st.at = "loop" THEN [w EXCEPT !.at = "LoopWritable"]
                     ELSE IF st.at = "done" THEN EndConn(w, "Ok", "")
                     ELSE EndConn(w, "Err", "write"))

\* process_req: the sleep of select! completes first; bail!
MetricsTimeout ==
  \E i \in 1..Len(conns) :
    /\ conns[i].at \in {"LoopWritable", "LoopTryWrite"}
    /\ conns[i].timer = "armed"
    /\ ConnStep(i, EndConn([conns[i] EXCEPT !.timer = "fired"], "Err", "timeout"))

(***************************************************************************)
(* The fake filesystem (lib/fs/fake.rs).                                   *)
(*                                                                         *)
(* The generator is StdRng seeded from the hash of seed and path. Its      *)
(* stream of words and the hash are deterministic functions the program    *)
(* takes from its libraries; a recurrence of the same kind, on words of    *)
(* RngBits bits, stands for them. What is drawn from the words (gen_range, *)
(* Alphanumeric) is computed as the libraries compute it.                  *)
(***************************************************************************)

\* the bits of a word of the generator (32 in the program)
RngBits == 13

RECURSIVE Pow2(_)
Pow2(n) == IF n = 0 THEN 1 ELSE 2 * Pow2(n - 1)

\* the number of values of a word
RngWords == Pow2(RngBits)

\* the multiplier and the increment of the recurrence
RngMul == 3421
RngInc == 1013

\* the multiplier of the hash
HashMul == 31

\* the printable ASCII characters, from code 32 on (x60 is the grave accent)
Ascii ==
  <<" ","!","\"","#","$","%","&","'","(",")","*","+",",","-",".","/","0",
    "1","2","3","4","5","6","7","8","9",":",";","<","=",">","?","@","A","B",
    "C","D","E","F","G","H","I","J","K","L","M","N","O","P","Q","R","S","T",
    "U","V","W","X","Y","Z","[","\\","]","^","_","x60","a","b","c","d","e",
    "f","g","h","i","j","k","l","m","n","o","p","q","r","s","t","u","v","w",
    "x","y","z","{","|","}","~">>

\* the byte of a character
CodeOfChar(c) == 31 + (CHOOSE i \in 1..Len(Ascii) : Ascii[i] = c)

\* Hasher::write_u8
HasherWrite(h, byte) == (h * HashMul + byte) % RngWords

RECURSIVE HashStr(_, _)
\* impl Hash for str: the bytes, then 0xff
HashStr(h, s) ==
  IF s = <<>> THEN HasherWrite(h, 255)
  ELSE HashStr(HasherWrite(h, CodeOfChar(Head(s))), Tail(s))

\* hash_path_seed
HashPathSeed(seed, p) == HashStr(HashStr(0, seed), p)

\* a faulty variant of SeedFromU64: the generator of the invocation before is
\* used on when there is one
SeedFromU64Shared(st) == IF g_rng = <<>> THEN st % RngWords ELSE g_rng[1]

\* StdRng::seed_from_u64
SeedFromU64(st) == st % RngWords

\* one step of the generator: the next word, which is its state too
RngStep(s) == (s * RngMul + RngInc) % RngWords

RECURSIVE ShiftUp(_, _)
\* range << range.leading_zeros(), top being the value of the highest bit
ShiftUp(range, top) == IF range >= top THEN range ELSE ShiftUp(2 * range, top)

\* gen_range(low..=high) on i32 and u32 (UniformInt::sample_single_inclusive):
\* a word v is taken and v * range split in two words; the low word above
\* the zone, another word is taken; high is kept beside the value drawn
GenRange(rng, low, high) ==
  LET range == high - low + 1
      zone == ShiftUp(range, Pow2(RngBits - 1)) - 1
      RECURSIVE Loop(_)
      Loop(s) ==
        LET v == RngStep(s) IN
        IF (v * range) % RngWords <= zone
        THEN [value |-> low + (v * range) \div RngWords, rng |-> v, high |-> high]
        ELSE Loop(v)
  IN Loop(rng)

\* gen_range(low..=high) on usize: the same on a word of twice the bits,
\* which next_u64 makes of two words, the low one first
GenRangeUsize(rng, low, high) ==
  LET range == high - low + 1
      rh == range \div RngWords
      rl == range % RngWords
      wide == RngWords * RngWords
      zone == ShiftUp(range, Pow2(2 * RngBits - 1)) - 1
      RECURSIVE Loop(_)
      Loop(s) ==
        LET vl == RngStep(s)
            vh == RngStep(vl)
            mid == vh * rl + vl * rh
            low_sum == (mid % RngWords) * RngWords + vl * rl
            lo == low_sum % wide
            hi == vh * rh + mid \div RngWords + low_sum \div wide
        IN
        IF lo <= zone THEN [value |-> low + hi, rng |-> vh] ELSE Loop(vh)
  IN Loop(rng)

\* GEN_ASCII_STR_CHARSET of Alphanumeric
AlphanumericCharset ==
  <<"A","B","C","D","E","F","G","H","I","J","K","L","M","N","O","P","Q","R",
    "S","T","U","V","W","X","Y","Z","a","b","c","d","e","f","g","h","i","j",
    "k","l","m","n","o","p","q","r","s","t","u","v","w","x","y","z","0","1",
    "2","3","4","5","6","7","8","9">>

RECURSIVE AlphanumericSample(_)
\* Alphanumeric::sample: the six high bits of a word, taken again when they
\* are no index of the charset
AlphanumericSample(rng) ==
  LET v == RngStep(rng)
      var == v \div Pow2(RngBits - 6)
  IN
  IF var < Len(AlphanumericCharset)
  THEN [value |-> AlphanumericCharset[var + 1], rng |-> v]
  ELSE AlphanumericSample(v)

RECURSIVE SampleString(_, _)
\* Alphanumeric.sample_string(rng, len)
SampleString(rng, len) ==
  IF len = 0 THEN [value |-> <<>>, rng |-> rng]
  ELSE
    LET Pushed(c, rest) == [value |-> <<c.value>> \o rest.value, rng |-> rest.rng]
        Rest(c) == Pushed(c, SampleString(c.rng, len - 1))
    IN Rest(AlphanumericSample(rng))

\* string_of_size
StringOfSize(rng, min, max) ==
  LET OfSize(size) == SampleString(size.rng, size.value)
  IN OfSize(GenRangeUsize(rng, min, max))

\* a DateTime<Utc>, to the second
DateTime(y, mo, d, h, mi, s) ==
  [year |-> y, month |-> mo, day |-> d, hour |-> h, minute |-> mi, second |-> s]

\* DateTime::default()
DateTimeDefault == DateTime(1970, 1, 1, 0, 0, 0)

\* the days of the months of a year that is no leap year, summed up to month m
DaysBeforeMonth(m) ==
  <<0, 31, 59, 90, 120, 151, 181, 212, 243, 273, 304, 334, 365>>[m]

IsLeapYear(y) == y % 4 = 0 /\ (y % 100 # 0 \/ y % 400 = 0)

\* the days of year y before its month m
DaysBeforeMonthOf(y, m) ==
  DaysBeforeMonth(m) + (IF m > 2 /\ IsLeapYear(y) THEN 1 ELSE 0)

\* NaiveDate::from_ymd_opt: None, or Some(the day's number, counted from
\* the first day of year 1)
FromYmdOpt(y, m, d) ==
  IF m \notin 1..12 THEN <<>>
  ELSE IF d < 1 \/ d > DaysBeforeMonthOf(y, m + 1) - DaysBeforeMonthOf(y, m) THEN <<>>
  ELSE <<365 * (y - 1) + (y - 1) \div 4 - (y - 1) \div 100 + (y - 1) \div 400
           + DaysBeforeMonthOf(y, m) + d>>

\* a faulty variant of GetDaysInMonth: every month has 31 days
GetDaysInMonthThirtyOne(year, month) == <<31>>

\* get_days_in_month: the first day of the next month less the first of
\* this one; None stands for the errors
GetDaysInMonth(year, month) ==
  LET next == FromYmdOpt(IF month = 12 THEN year + 1 ELSE year,
                         IF month = 12 THEN 1 ELSE month + 1, 1)
      this == FromYmdOpt(year, month, 1)
  IN
  IF next = <<>> \/ this = <<>> THEN <<>>
  ELSE IF next[1] - this[1] < 0 THEN <<>>
  ELSE <<next[1] - this[1]>>

\* Utc.with_ymd_and_hms(...).latest(): None when there is no such instant
WithYmdAndHms(y, mo, d, h, mi, s) ==
  IF FromYmdOpt(y, mo, d) = <<>> \/ h > 23 \/ mi > 59 \/ s > 59 THEN <<>>
  ELSE <<DateTime(y, mo, d, h, mi, s)>>

\* plausible_datetime, now being what Utc::now() returns: value is None for
\* an Err, highs are the upper ends of the ranges drawn from
PlausibleDatetime(rng, now) ==
  LET Drawn(year, month, day, hour, minute, second) ==
        [value |-> WithYmdAndHms(year.value, month.value, day.value,
                                 hour.value, minute.value, second.value),
         rng |-> second.rng,
         highs |-> <<year.high, month.high, day.high, hour.high, minute.high,
                     second.high>>]
      FromMinute(year, month, day, hour, minute) ==
        Drawn(year, month, day, hour, minute,
              IF /\ year.value = now.year
                 /\ month.value = now.month
                 /\ day.value = now.day
                 /\ hour.value = now.hour
                 /\ minute.value = now.minute
              THEN GenRange(minute.rng, 0, now.second)
              ELSE GenRange(minute.rng, 0, 59))
      FromHour(year, month, day, hour) ==
        FromMinute(year, month, day, hour,
                   IF /\ year.value = now.year
                      /\ month.value = now.month
                      /\ day.value = now.day
                      /\ hour.value = now.hour
                   THEN GenRange(hour.rng, 0, now.minute)
                   ELSE GenRange(hour.rng, 0, 59))
      FromDay(year, month, day) ==
        FromHour(year, month, day,
                 IF /\ year.value = now.year
                    /\ month.value = now.month
                    /\ day.value = now.day
                 THEN GenRange(day.rng, 0, now.hour)
                 ELSE GenRange(day.rng, 0, 23))
      FromDays(year, month, days) ==
        IF year.value = now.year /\ month.value = now.month
        THEN FromDay(year, month, GenRange(month.rng, 1, now.day))
        ELSE IF days = <<>>
        THEN [value |-> <<>>, rng |-> month.rng,
              highs |-> <<year.high, month.high>>]
        ELSE FromDay(year, month, GenRange(month.rng, 1, days[1]))
      FromMonth(year, month) ==
        FromDays(year, month, GetDaysInMonth(year.value, month.value))
      FromYear(year) ==
        FromMonth(year,
                  IF year.value = now.year
                  THEN GenRange(year.rng, 1, now.month)
                  ELSE GenRange(year.rng, 1, 12))
  IN FromYear(GenRange(rng, 2000, now.year))

\* unwrap_or_default
UnwrapOrDefault(opt, default) == IF opt = <<>> THEN default ELSE opt[1]

\* impl Fill for Node: the node of a kind, filled from the generator
FillNode(kind, rng, now) ==
  IF kind = "File"
  THEN
    LET File(base, ext, modified_at, size) ==
          [value |-> [kind |-> "File",
                      name |-> base.value \o <<".">> \o ext.value,
                      modified_at |-> UnwrapOrDefault(modified_at.value, DateTimeDefault),
                      size |-> size.value],
           rng |-> size.rng]
        FromModifiedAt(base, ext, modified_at) ==
          File(base, ext, modified_at,
               GenRangeUsize(modified_at.rng, 0, 32 * 1024 * 1024))
        FromExt(base, ext) ==
          FromModifiedAt(base, ext, PlausibleDatetime(ext.rng, now))
        FromBase(base) == FromExt(base, StringOfSize(base.rng, 1, 3))
    IN FromBase(StringOfSize(rng, 4, 10))
  ELSE
    LET Folder(name, modified_at) ==
          [value |-> [kind |-> "Folder",
                      name |-> name.value,
                      modified_at |-> UnwrapOrDefault(modified_at.value, DateTimeDefault)],
           rng |-> modified_at.rng]
        FromName(name) == Folder(name, PlausibleDatetime(name.rng, now))
    IN FromName(StringOfSize(rng, 6, 15))

RECURSIVE FillNodes(_, _, _)
\* rng.fill(&mut n) for the nodes of the kinds given, in order
FillNodes(kinds, rng, now) ==
  IF kinds = <<>> THEN [value |-> <<>>, rng |-> rng]
  ELSE
    LET Pushed(n, rest) == [value |-> <<n.value>> \o rest.value, rng |-> rest.rng]
        Rest(n) == Pushed(n, FillNodes(Tail(kinds), n.rng, now))
    IN Rest(FillNode(Head(kinds), rng, now))

\* a faulty variant of GenFakeNodes: the files come before the folders
GenFakeNodesFilesFirst(seed, p, now) ==
  LET Filled(files, folders) ==
        FillNodes([i \in 1..files.value |-> "File"]
                    \o [i \in 1..folders.value |-> "Folder"],
                  folders.rng, now)
      FromFiles(files) == Filled(files, GenRange(files.rng, 4, 15))
  IN FromFiles(GenRange(SeedFromU64(HashPathSeed(seed, p)), 2, 8))

\* gen_fake_nodes, now being what Utc::now() returns while it runs: the
\* nodes, and the generator as it is left
GenFakeNodes(seed, p, now) ==
  LET Filled(files, folders) ==
        FillNodes([i \in 1..folders.value |-> "Folder"]
                    \o [i \in 1..files.value |-> "File"],
                  folders.rng, now)
      FromFiles(files) == Filled(files, GenRange(files.rng, 4, 15))
  IN FromFiles(GenRange(SeedFromU64(HashPathSeed(seed, p)), 2, 8))

\* Node::name
NodeName(n) == IF n.kind = "File" THEN n.name ELSE n.name \o <<"/">>

RECURSIVE ListingEntries(_)
\* the entries of the listing, one <span> for each node
ListingEntries(nodes) ==
  IF nodes = <<>> THEN <<>>
  ELSE <<"<","s","p","a","n",">","<","a"," ","h","r","e","f","=","\"">> \o NodeName(Head(nodes))
         \o <<"\"",">">> \o NodeName(Head(nodes))
         \o <<"<","/","a",">"," "," "," "," "," "," "," "," "," "," ","\n","<","/","s","p","a","n",">">>
         \o ListingEntries(Tail(nodes))

ListingFoot ==
  <<"<","/","p","r","e",">","<","h","r","/",">","<","/","b","o","d","y",">",
    "<","/","h","t","m","l",">">>

\* the document of gen_fake_listing, as it is rendered (doc.to_string())
ListingDoc(p, nodes) ==
  LET basepath == IF p = <<>> THEN <<"/">>
                  ELSE IF p[Len(p)] = "/" THEN p
                  ELSE p \o <<"/">>
  IN
    <<"<","h","t","m","l",">","<","h","e","a","d",">","<","t","i","t","l",
      "e",">","I","n","d","e","x"," ","o","f"," ">>
    \o basepath \o
    <<"<","/","t","i","t","l","e",">","<","m","e","t","a"," ","n","a","m",
      "e","=","\"","d","e","s","c","r","i","p","t","i","o","n","\""," ","c",
      "o","n","t","e","n","t","=","\"","G","e","n","e","r","a","t","e","d",
      " ","D","i","r","e","c","t","o","r","y"," ","L","i","s","t","i","n",
      "g","\"","/",">","<","/","h","e","a","d",">","<","b","o","d","y",">",
      "<","h","1",">","I","n","d","e","x"," ","o","f"," ">>
    \o basepath \o
    <<"<","/","h","1",">","<","h","r","/",">","<","p","r","e",">","<","a",
      " ","h","r","e","f","=","\"",".",".","/","\"",">",".",".","/","<","/",
      "a",">","\n">>
    \o ListingEntries(nodes) \o ListingFoot

\* the seeds and the paths of the modelled invocations
s_seedv1 == <<"s","e","e","d","v","1">>
FakeSeeds == {s_seedv1, <<"s","e","e","d","v","2">>}
FakePaths == {<<"/">>, <<"/","a","/">>}

\* the instants Utc::now() returns
Nows ==
  {DateTime(2000, 1, 1, 0, 0, 0), DateTime(2000, 1, 1, 0, 0, 30),
   DateTime(2000, 1, 1, 0, 2, 5), DateTime(2000, 1, 1, 3, 0, 0),
   DateTime(2000, 1, 2, 1, 1, 1), DateTime(2000, 2, 29, 12, 0, 0),
   DateTime(2000, 3, 31, 23, 59, 59), DateTime(2001, 2, 28, 6, 30, 0),
   DateTime(2001, 12, 31, 23, 59, 59), DateTime(2004, 2, 29, 0, 0, 0),
   DateTime(2026, 11, 2, 21, 51, 0), DateTime(2027, 1, 1, 0, 0, 0)}

\* the instants of the modelled invocations of the generator
FakeNows ==
  {DateTime(2000, 1, 1, 0, 0, 30), DateTime(2026, 11, 2, 21, 51, 0),
   DateTime(2026, 12, 24, 8, 0, 0)}

\* the most invocations of the generator
MaxInvocations == 2

FakeIdle ==
  /\ g_calls = <<>>
  /\ g_rng = <<>>

FakeInit == FakeIdle

\* gen_fake_listing(seed, path): the nodes generated, the document rendered
GenFakeListingCall ==
  /\ Len(g_calls) < MaxInvocations
  /\ \E seed \in FakeSeeds, p \in FakePaths, now \in FakeNows :
       \E nodes \in {GenFakeNodes(seed, p, now)} :
       /\ g_calls' = Append(g_calls,
                            [seed |-> seed, path |-> p, now |-> now,
                             nodes |-> nodes.value,
                             doc |-> ListingDoc(p, nodes.value)])
       /\ g_rng' = <<nodes.rng>>
  /\ UNCHANGED outsideFake

DatetimeIdle ==
  /\ d_now = <<>>
  /\ d_rng = <<>>
  /\ d_out = <<>>

\* a call about to be made: any instant among Nows, any generator
DatetimeInit ==
  /\ d_now \in {<<now>> : now \in Nows}
  /\ d_rng \in {<<s>> : s \in 0..(RngWords - 1)}
  /\ d_out = <<>>

\* plausible_datetime(rng)
PlausibleDatetimeCall ==
  /\ d_out = <<>>
  /\ LET r == PlausibleDatetime(d_rng[1], d_now[1]) IN
       /\ d_out' = <<[value |-> r.value, highs |-> r.highs]>>
       /\ d_rng' = <<r.rng>>
  /\ UNCHANGED d_now
  /\ UNCHANGED outsideDatetime

(***************************************************************************)
(* Responses built in one chain of builder calls (lib/http/response.rs):   *)
(* the builder is a value, hd is what default_headers() returns.           *)
(***************************************************************************)

\* BaseResponseBuilder::default: no status code, the default headers
BuilderDefault(hd) ==
  [status_code |-> <<>>, body |-> <<>>, headers |-> <<hd>>, version |-> <<>>]

\* BaseResponseBuilder::ok
BuilderOk(hd) == [BuilderDefault(hd) EXCEPT !.status_code = <<200>>]

\* BaseResponseBuilder::not_found
BuilderNotFound(hd) == [BuilderDefault(hd) EXCEPT !.status_code = <<404>>]

\* the headers of a builder, default_headers() when it has none yet
HeadersOf(b, hd) == IF b.headers = <<>> THEN hd ELSE b.headers[1]

\* add_header
WithHeader(b, hd, name, value) ==
  [b EXCEPT !.headers = <<HeadersAdd(HeadersOf(b, hd), name, value)>>]

\* body
WithBody(b, hd, bytes) ==
  [b EXCEPT !.body = <<bytes>>,
            !.headers = <<BuilderSetBody(HeadersOf(b, hd), bytes)>>]

\* status_code
WithStatusCode(b, n) == [b EXCEPT !.status_code = StatusCodeFromI64(n)]

\* build
BuildOf(b, hd) == Build(b.status_code, b.body, HeadersOf(b, hd), b.version)

(***************************************************************************)
(* The stock responses (lib/http/stock_responses.rs).                      *)
(***************************************************************************)

\* boilerplate!(title, tokens), rendered
Boilerplate(title, tokens) ==
  <<"<","h","t","m","l",">","<","h","e","a","d",">","<","t","i","t","l","e",">">>
    \o title \o
    <<"<","/","t","i","t","l","e",">","<","m","e","t","a"," ","n","a","m",
    "e","=","\"","d","e","s","c","r","i","p","t","i","o","n","\""," ",
    "c","o","n","t","e","n","t","=","\"","h","t","t","p","o","t","\"",
    "/",">","<","/","h","e","a","d",">","<","b","o","d","y",">">>
    \o tokens \o <<"<","/","b","o","d","y",">","<","/","h","t","m","l",">">>

\* <h1>text</h1>
H1(t) == <<"<","h","1",">">> \o t \o <<"<","/","h","1",">">>

s_HelloWorld == <<"H","e","l","l","o"," ","W","o","r","l","d","!">>
s_HelloCommaWorld == <<"H","e","l","l","o",","," ","W","o","r","l","d","!">>
s_NotFound == <<"N","o","t"," ","F","o","u","n","d">>

\* hello_world
HelloWorld(hd) ==
  BuildOf(WithBody(WithHeader(BuilderOk(hd), hd, s_ContentType, s_texthtml), hd,
                   Boilerplate(s_HelloWorld, H1(s_HelloCommaWorld))),
          hd)

\* not_found
NotFound(hd) ==
  BuildOf(WithBody(WithHeader(BuilderNotFound(hd), hd, s_ContentType, s_texthtml), hd,
                   Boilerplate(s_NotFound, H1(s_NotFound))),
          hd)

\* generic_status: the builder it returns
GenericStatus(hd, status) ==
  WithStatusCode(
    WithBody(WithHeader(BuilderDefault(hd), hd, s_ContentType, s_texthtml), hd,
             Boilerplate(ReasonPhrase(status), H1(ReasonPhrase(status)))),
    StatusCodeAsI32(status))

\* gen_fake_listing (lib/fs/fake.rs): the Response with the listing
GenFakeListing(hd, seed, p, now) ==
  LET doc == ListingDoc(p, GenFakeNodes(seed, p, now).value) IN
  BuildOf(WithBody(WithHeader(WithHeader(BuilderOk(hd), hd, s_ContentType, s_texthtml),
                              hd, s_ContentLength, UsizeToString(Len(doc))),
                   hd, doc),
          hd)

(***************************************************************************)
(* Signature mimicry (lib/honeypot/php.rs).                                *)
(***************************************************************************)

HexDigits ==
  {"0","1","2","3","4","5","6","7","8","9",
   "a","b","c","d","e","f","A","B","C","D","E","F"}

\* the value of a hexadecimal digit
HexVal(c) ==
  CASE c \in Digits -> DigitVal(c)
    [] c \in {"a", "A"} -> 10
    [] c \in {"b", "B"} -> 11
    [] c \in {"c", "C"} -> 12
    [] c \in {"d", "D"} -> 13
    [] c \in {"e", "E"} -> 14
    [] c \in {"f", "F"} -> 15

\* a byte that is no printable ASCII character
OtherByte == "x??"

\* the character of a byte
CharOfCode(n) == IF n \in 32..126 THEN Ascii[n - 31] ELSE OtherByte

RECURSIVE PercentDecode(_)
\* percent_decode: '%' and two hexadecimal digits give a byte
PercentDecode(s) ==
  IF s = <<>> THEN <<>>
  ELSE IF Len(s) >= 3 /\ s[1] = "%" /\ s[2] \in HexDigits /\ s[3] \in HexDigits
  THEN <<CharOfCode(16 * HexVal(s[2]) + HexVal(s[3]))>>
         \o PercentDecode(SubSeq(s, 4, Len(s)))
  ELSE <<Head(s)>> \o PercentDecode(Tail(s))

\* form_urlencoded decode: '+' is a space, then percent_decode
FormDecode(s) ==
  PercentDecode([i \in 1..Len(s) |-> IF s[i] = "+" THEN " " ELSE s[i]])

\* Url::query_pairs: the pieces between '&', the empty ones skipped, each
\* split at its first '=', name and value decoded
QueryPairs(url) ==
  IF url.query = <<>> THEN <<>>
  ELSE
    LET pieces == SelectSeq(Split(url.query[1], {"&"}), LAMBDA p : p # <<>>)
        pair(p) ==
          LET e == FirstIn(p, {"="}) IN
          IF e = 0 THEN <<FormDecode(p), <<>>>>
          ELSE <<FormDecode(SubSeq(p, 1, e - 1)), FormDecode(SubSeq(p, e + 1, Len(p)))>>
    IN [i \in 1..Len(pieces) |-> pair(pieces[i])]

\* RE: what each character of a match has to be
RE ==
  <<{"P"}, {"H"}, {"P"}>> \o [i \in 1..8 |-> HexDigits] \o <<{"-"}>>
    \o [i \in 1..4 |-> HexDigits] \o <<{"-"}>>
    \o [i \in 1..4 |-> HexDigits] \o <<{"-"}>>
    \o [i \in 1..4 |-> HexDigits] \o <<{"-"}>>
    \o [i \in 1..12 |-> HexDigits]

\* is_match of the pattern the static refers to: a match anywhere in the
\* text
ReIsMatchIn(re, v) ==
  \E i \in 0..(Len(v) - Len(re)) : \A j \in 1..Len(re) : v[i + j] \in re[j]

\* RE.is_match
ReIsMatch(v) == ReIsMatchIn(RE, v)

\* a faulty variant of IsEasterEggUrl: the name of the pair is not looked at
IsEasterEggUrlAnyName(url) ==
  \E i \in 1..Len(QueryPairs(url)) : ReIsMatch(QueryPairs(url)[i][2])

\* is_easter_egg_url
IsEasterEggUrl(url) ==
  \E i \in 1..Len(QueryPairs(url)) :
    QueryPairs(url)[i][1] = <<>> /\ ReIsMatch(QueryPairs(url)[i][2])

\* is_easter_egg
IsEasterEgg(req) == IsEasterEggUrl(req.url)

\* is_easter_egg with the pattern a task finds behind the static
IsEasterEggIn(re, req) ==
  \E i \in 1..Len(QueryPairs(req.url)) :
    QueryPairs(req.url)[i][1] = <<>> /\ ReIsMatchIn(re, QueryPairs(req.url)[i][2])

s_imagegif == <<"i","m","a","g","e","/","g","i","f">>
s_XPoweredBy == <<"X","-","P","o","w","e","r","e","d","-","B","y">>
s_PHP401 == <<"P","H","P","/","4",".","0",".","1">>

\* the values easter_egg knows
s_PHPE9568F36 ==
  <<"P","H","P","E","9","5","6","8","F","3","6","-","D","4","2","8","-",
    "1","1","d","2","-","A","7","6","9","-","0","0","A","A","0","0",
    "1","A","C","F","4","2">>
s_PHPE9568F34 ==
  <<"P","H","P","E","9","5","6","8","F","3","4","-","D","4","2","8","-",
    "1","1","d","2","-","A","7","6","9","-","0","0","A","A","0","0",
    "1","A","C","F","4","2">>
s_PHPE9568F35 ==
  <<"P","H","P","E","9","5","6","8","F","3","5","-","D","4","2","8","-",
    "1","1","d","2","-","A","7","6","9","-","0","0","A","A","0","0",
    "1","A","C","F","4","2">>
s_PHPB8B5F2A0 ==
  <<"P","H","P","B","8","B","5","F","2","A","0","-","3","C","9","2","-",
    "1","1","d","3","-","A","3","A","9","-","4","C","7","B","0","8",
    "C","1","0","0","0","0">>

\* the body of the image response: 2985 times 'a'
ImageBody == [i \in 1..2985 |-> "a"]

\* php_credits.html, which include_str! takes in: a text stands for the file
PhpCreditsHtml ==
  <<"<","h","t","m","l",">","<","h","e","a","d",">","<","t","i","t","l",
    "e",">","p","h","p","i","n","f","o","(",")","<","/","t","i","t",
    "l","e",">","<","/","h","e","a","d",">","<","b","o","d","y",">",
    "P","H","P"," ","C","r","e","d","i","t","s","<","/","b","o","d",
    "y",">","<","/","h","t","m","l",">">>

\* a faulty variant of PhpImageResp: the X-Powered-By header is left out
PhpImageRespPlain(hd) ==
  BuildOf(WithHeader(WithBody(BuilderOk(hd), hd, ImageBody), hd, s_ContentType, s_imagegif),
          hd)

\* php_image_resp
PhpImageResp(hd) ==
  BuildOf(WithHeader(WithHeader(WithBody(BuilderOk(hd), hd, ImageBody),
                                hd, s_ContentType, s_imagegif),
                     hd, s_XPoweredBy, s_PHP401),
          hd)

\* php_credits
PhpCredits(hd) ==
  BuildOf(WithHeader(WithHeader(WithBody(BuilderOk(hd), hd, PhpCreditsHtml),
                                hd, s_ContentType, s_texthtml),
                     hd, s_XPoweredBy, s_PHP401),
          hd)

\* the value easter_egg finds: that of the first pair with an empty name
\* and a match; None when there is no such pair
EasterEggValueIn(re, req) ==
  LET pairs == QueryPairs(req.url)
      hits == {i \in 1..Len(pairs) : pairs[i][1] = <<>> /\ ReIsMatchIn(re, pairs[i][2])}
  IN
  IF hits = {} THEN <<>>
  ELSE <<pairs[CHOOSE i \in hits : \A j \in hits : i <= j][2]>>

\* the value found with RE
EasterEggValue(req) == EasterEggValueIn(RE, req)

\* easter_egg: the canned response of the value, an error for a request
\* without a value and for a value it does not know
EasterEggIn(re, req, hd) ==
  LET v == EasterEggValueIn(re, req) IN
  IF v = <<>> THEN [ok |-> FALSE, error |-> "no easter egg queryparam"]
  ELSE IF v[1] \in {s_PHPE9568F36, s_PHPE9568F34, s_PHPE9568F35} THEN PhpImageResp(hd)
  ELSE IF v[1] = s_PHPB8B5F2A0 THEN PhpCredits(hd)
  ELSE [ok |-> FALSE, error |-> "unknown php easter egg querystring"]

\* easter_egg, with RE
EasterEgg(req, hd) == EasterEggIn(RE, req, hd)

(***************************************************************************)
(* The router (router.rs).                                                 *)
(***************************************************************************)

s_hello == <<"/","h","e","l","l","o">>
s_favicon == <<"/","f","a","v","i","c","o","n",".","i","c","o">>

\* a faulty variant of RouteOfPath: every path but /hello is a directory
RouteOfPathAllListed(p) ==
  IF p = s_hello THEN "hello_world" ELSE "fake_directory_tree"

\* match r.url.path(): the function the path is answered by
RouteOfPath(p) ==
  IF p = s_hello THEN "hello_world"
  ELSE IF p = s_favicon THEN "not_found"
  ELSE IF p # <<>> /\ p[Len(p)] = "/" THEN "fake_directory_tree"
  ELSE "not_found"

\* fake_directory_tree, with SEED
FakeDirectoryTree(req, hd, now) == GenFakeListing(hd, s_seedv1, req.url.path, now)

\* what the function named returns
Routed(name, req, hd, now) ==
  CASE name = "hello_world" -> HelloWorld(hd)
    [] name = "not_found" -> NotFound(hd)
    [] name = "fake_directory_tree" -> FakeDirectoryTree(req, hd, now)

\* the answer to a method that is neither GET nor OPTIONS
MethodNotAllowed(hd) ==
  BuildOf(WithHeader(WithHeader(GenericStatus(hd, "MethodNotAllowed"), hd, s_Allow, s_GET),
                     hd, s_Allow, s_OPTIONS),
          hd)

\* a faulty variant of Router: the signature is looked for before the method
RouterSignatureFirst(req, hd, now) ==
  IF IsEasterEgg(req)
  THEN [calls |-> <<"is_easter_egg", "easter_egg">>, result |-> EasterEgg(req, hd)]
  ELSE IF req.method \notin {"GET", "OPTIONS"}
  THEN [calls |-> <<"is_easter_egg", "generic_status">>, result |-> MethodNotAllowed(hd)]
  ELSE [calls |-> <<"is_easter_egg", RouteOfPath(req.url.path)>>,
        result |-> Routed(RouteOfPath(req.url.path), req, hd, now)]

\* router: the functions it calls, in order, and what it returns
Router(req, hd, now) ==
  IF req.method \notin {"GET", "OPTIONS"}
  THEN [calls |-> <<"generic_status">>, result |-> MethodNotAllowed(hd)]
  ELSE IF IsEasterEgg(req)
  THEN [calls |-> <<"is_easter_egg", "easter_egg">>, result |-> EasterEgg(req, hd)]
  ELSE [calls |-> <<"is_easter_egg", RouteOfPath(req.url.path)>>,
        result |-> Routed(RouteOfPath(req.url.path), req, hd, now)]

\* what router returns to a task that finds the pattern re behind the
\* static RE
RouterIn(re, req, hd, now) ==
  IF req.method \notin {"GET", "OPTIONS"} THEN MethodNotAllowed(hd)
  ELSE IF IsEasterEggIn(re, req) THEN EasterEggIn(re, req, hd)
  ELSE Routed(RouteOfPath(req.url.path), req, hd, now)

\* the host of the modelled requests
s_examplecom == <<"e","x","a","m","p","l","e",".","c","o","m">>

\* the request targets of the modelled requests
RouterTargets ==
  {
    <<"/">>,
    <<"/","h","e","l","l","o">>,
    <<"/","f","a","v","i","c","o","n",".","i","c","o">>,
    <<"/","a","/">>,
    <<"/","a","/","b">>,
    <<"/","h","e","l","l","o","/">>,
    <<"/","a","/","b","/">>,
    <<"/","?","=","P","H","P","E","9","5","6","8","F","3","6","-","D","4",
      "2","8","-","1","1","d","2","-","A","7","6","9","-","0","0","A",
      "A","0","0","1","A","C","F","4","2">>,
    <<"/","h","e","l","l","o","?","=","P","H","P","E","9","5","6","8","F",
      "3","4","-","D","4","2","8","-","1","1","d","2","-","A","7","6",
      "9","-","0","0","A","A","0","0","1","A","C","F","4","2">>,
    <<"/","f","a","v","i","c","o","n",".","i","c","o","?","=","P","H","P",
      "E","9","5","6","8","F","3","5","-","D","4","2","8","-","1","1",
      "d","2","-","A","7","6","9","-","0","0","A","A","0","0","1","A",
      "C","F","4","2">>,
    <<"/","a","/","?","=","P","H","P","B","8","B","5","F","2","A","0","-",
      "3","C","9","2","-","1","1","d","3","-","A","3","A","9","-","4",
      "C","7","B","0","8","C","1","0","0","0","0">>,
    <<"/","?","=","P","H","P","0","0","0","0","0","0","0","0","-","0","0",
      "0","0","-","0","0","0","0","-","0","0","0","0","-","0","0","0",
      "0","0","0","0","0","0","0","0","0">>,
    <<"/","?","=","P","H","P","e","9","5","6","8","f","3","6","-","d","4",
      "2","8","-","1","1","d","2","-","a","7","6","9","-","0","0","a",
      "a","0","0","1","a","c","f","4","2">>,
    <<"/","?","=","x","P","H","P","E","9","5","6","8","F","3","6","-","D",
      "4","2","8","-","1","1","d","2","-","A","7","6","9","-","0","0",
      "A","A","0","0","1","A","C","F","4","2","y">>,
    <<"/","?","1","=","2","&","3","=","4","&","6","=","&","=","5">>,
    <<"/","?","f","o","o","=","b","a","r","&","b","i","z","=","b","a",
      "z">>,
    <<"/","?","a","=","P","H","P","E","9","5","6","8","F","3","6","-","D",
      "4","2","8","-","1","1","d","2","-","A","7","6","9","-","0","0",
      "A","A","0","0","1","A","C","F","4","2">>,
    <<"/","?","P","H","P","E","9","5","6","8","F","3","6","-","D","4","2",
      "8","-","1","1","d","2","-","A","7","6","9","-","0","0","A","A",
      "0","0","1","A","C","F","4","2">>,
    <<"/","?","=","P","H","P","E","9","5","6","8","F","3","6","-","D","4",
      "2","8","-","1","1","d","2","-","A","7","6","9">>,
    <<"/","?","x","=","1","&","&","=","P","H","P","B","8","B","5","F","2",
      "A","0","-","3","C","9","2","-","1","1","d","3","-","A","3","A",
      "9","-","4","C","7","B","0","8","C","1","0","0","0","0">>,
    <<"/","?","=","5","&","=","P","H","P","E","9","5","6","8","F","3","6",
      "-","D","4","2","8","-","1","1","d","2","-","A","7","6","9","-",
      "0","0","A","A","0","0","1","A","C","F","4","2">>,
    <<"/","?","=","p","h","p","E","9","5","6","8","F","3","6","-","D","4",
      "2","8","-","1","1","d","2","-","A","7","6","9","-","0","0","A",
      "A","0","0","1","A","C","F","4","2">>,
    <<"/","?","=","P","H","P","E","9","5","6","8","F","3","6","%","2","D",
      "D","4","2","8","-","1","1","d","2","-","A","7","6","9","-","0",
      "0","A","A","0","0","1","A","C","F","4","2">>,
    <<"/","?","=","P","H","P","E","9","5","6","8","F","3","6","+","D","4",
      "2","8","-","1","1","d","2","-","A","7","6","9","-","0","0","A",
      "A","0","0","1","A","C","F","4","2">>,
    <<"/","?","=","P","H","P","E","9","5","6","8","G","3","6","-","D","4",
      "2","8","-","1","1","d","2","-","A","7","6","9","-","0","0","A",
      "A","0","0","1","A","C","F","4","2">>
  }

\* the Requests parse_request returns for them, with each method
RouterRequests ==
  {[method |-> m, url |-> UrlParse(s_http \o s_examplecom \o t)[1]] :
     m \in Methods, t \in RouterTargets}

RouterIdle ==
  /\ r_req = <<>>
  /\ r_out = <<>>

\* a Request about to be routed
RouterInit ==
  /\ r_req \in {<<req>> : req \in RouterRequests}
  /\ r_out = <<>>

\* router(&req)
RouterCall ==
  /\ r_out = <<>>
  /\ \E server \in ServerValues, date \in DateValues, now \in FakeNows :
       r_out' = <<Router(r_req[1], DefaultHeaders(server, date), now)>>
  /\ UNCHANGED r_req
  /\ UNCHANGED outsideRouter

(***************************************************************************)
(* Connection tasks side by side (main.rs listen_loop, process_socket).    *)
(*                                                                         *)
(* Each task owns its socket, its Request and its Response. What the tasks *)
(* share are the lazy statics KNOWN_LIST_HEADERS and RE, initialised by    *)
(* the first task that uses them, the constant SEED, and the registry of   *)
(* the metrics, which observe_request writes to.                           *)
(***************************************************************************)

\* the most connections handled side by side
MaxTasks == 2

\* the header line of a modelled connection, name and value
TaskLines ==
  {<<s_Cookie, <<"a","=","1",";"," ","b","=","2">>>>,
   <<<<"F","o","o">>, <<"a",","," ","b">>>>}

\* the request targets of the modelled connections
TaskTargets ==
  {s_hello,
   <<"/","a","/">>,
   <<"/","?","=","P","H","P","E","9","5","6","8","F","3","6","-","D","4",
     "2","8","-","1","1","d","2","-","A","7","6","9","-","0","0","A",
     "A","0","0","1","A","C","F","4","2">>}

\* what a connection brings: a header line, the request line and the time
TaskInputs ==
  [line : TaskLines,
   req : {[method |-> m, url |-> UrlParse(s_http \o s_examplecom \o t)[1]] :
            m \in {"GET", "POST"}, t \in TaskTargets},
   now : {DateTime(2026, 11, 2, 21, 51, 0)}]

\* the default headers of the responses of the modelled connections
TaskDefaultHeaders ==
  DefaultHeaders(<<"h","t","t","p","o","t">>,
                 <<"M","o","n",","," ","0","2"," ","N","o","v"," ","2","0","2","6"," ","2","1",":","5","1",":","0","0"," ","G","M","T">>)

\* a faulty variant of TableAfterGet: a name that is not found is entered,
\* with ',' for its delimiter
TableAfterGetInserts(tbl, lname) ==
  IF \E e \in tbl : e[1] = lname THEN tbl ELSE tbl \cup {<<lname, ",">>}

\* the table after get(name): get borrows the map, the table is as before
TableAfterGet(tbl, lname) == tbl

\* the deref of a lazy static: the first use runs the initialiser, once, and
\* every use reads the value the cell holds
LazyDeref(cell, init) ==
  LET v == IF cell = <<>> THEN init ELSE cell[1] IN
  [value |-> v, cell |-> <<v>>]

\* the task spawned for an accepted socket
NewTask(inp) ==
  [input |-> inp, at |-> "Parse", vals |-> <<>>, response |-> <<>>]

TasksIdle ==
  /\ tasks = <<>>
  /\ statics = [table |-> <<>>, re |-> <<>>]
  /\ registry = 0

\* listen_loop: accept, tokio::spawn
TaskSpawn ==
  /\ Len(tasks) < MaxTasks
  /\ \E inp \in TaskInputs : tasks' = Append(tasks, NewTask(inp))
  /\ UNCHANGED <<statics, registry>>
  /\ UNCHANGED outsideTasks

\* parse_request on the header line of the task: KNOWN_LIST_HEADERS.get
TaskParse ==
  \E i \in 1..Len(tasks) :
    /\ tasks[i].at = "Parse"
    /\ LET tbl == LazyDeref(statics.table, KNOWN_LIST_HEADERS)
           line == tasks[i].input.line
       IN
       /\ statics' = [statics EXCEPT
                       !.table = <<TableAfterGet(tbl.value, ToLower(line[1]))>>]
       /\ tasks' = [tasks EXCEPT ![i].at = "Observe",
                                 ![i].vals = <<HeaderValuesIn(tbl.value, line[1], line[2])>>]
    /\ UNCHANGED registry
    /\ UNCHANGED outsideTasks

\* observe_request: the observation is recorded in the registry
TaskObserve ==
  \E i \in 1..Len(tasks) :
    /\ tasks[i].at = "Observe"
    /\ registry' = registry + 1
    /\ tasks' = [tasks EXCEPT ![i].at = "Route"]
    /\ UNCHANGED statics
    /\ UNCHANGED outsideTasks

\* router(&req): RE is used when the method is GET or OPTIONS
TaskRoute ==
  \E i \in 1..Len(tasks) :
    /\ tasks[i].at = "Route"
    /\ LET inp == tasks[i].input
           used == inp.req.method \in {"GET", "OPTIONS"}
           re == LazyDeref(statics.re, RE)
       IN
       /\ statics' = IF used THEN [statics EXCEPT !.re = re.cell] ELSE statics
       /\ tasks' = [tasks EXCEPT ![i].at = "Done",
                                 ![i].response = <<RouterIn(re.value, inp.req, TaskDefaultHeaders, inp.now)>>]
    /\ UNCHANGED registry
    /\ UNCHANGED outsideTasks

(***************************************************************************)
(* The specifications.                                                     *)
(***************************************************************************)

\* nothing generated, no date drawn, nothing routed
ContentIdle ==
  /\ FakeIdle
  /\ DatetimeIdle
  /\ RouterIdle

\* the other components at rest
NetworkIdle ==
  /\ ParserIdle
  /\ HeaderMapInit
  /\ BuilderIdle
  /\ SendIdle
  /\ ServiceIdle

vars ==
  <<parserVars, headerMapVars, builderVars, sendVars, serviceVars, contentVars,
    observeVars>>

Init ==
  /\ ParserInit
  /\ HeaderMapInit
  /\ BuilderIdle
  /\ SendIdle
  /\ ServiceIdle
  /\ ContentIdle
  /\ ObserveIdle
  /\ TasksIdle

Next ==
  \/ ReadStartLine
  \/ ReadHeaderLine
  \/ ReadBody
  \/ CallRequester
  \/ ObserveRequest

\* one connection's parse_request under observe_request, then the requester
\* resolution
Spec == Init /\ [][Next]_vars

\* one iteration of the loop of parse_request: the arm of the current state
\* has run (each of ReadStartLine, ReadHeaderLine and ReadBody is one)
LoopIteration ==
  /\ state \in {"Version", "Headers", "Body"}
  /\ visited' = Append(visited, state)

\* the same under the scheduling of the task: a read of a stream that ends
\* returns, with bytes or at the end of the stream, and the task is polled
\* again, so an iteration that can be made is made
SpecFair ==
  /\ Init
  /\ [][Next]_vars
  /\ WF_visited(LoopIteration)

InitTasks ==
  /\ NetworkIdle
  /\ FakeIdle
  /\ DatetimeIdle
  /\ RouterIdle
  /\ ObserveIdle
  /\ TasksIdle

NextTasks ==
  \/ TaskSpawn
  \/ TaskParse
  \/ TaskObserve
  \/ TaskRoute

\* connections handled side by side, in every interleaving of their steps
SpecTasks == InitTasks /\ [][NextTasks]_vars

InitHeaderMap ==
  /\ ParserIdle
  /\ HeaderMapInit
  /\ BuilderIdle
  /\ SendIdle
  /\ ServiceIdle
  /\ ContentIdle
  /\ ObserveIdle
  /\ TasksIdle

NextHeaderMap ==
  \/ HeadersAddCall
  \/ HeadersLineCall

\* a header map under additions
SpecHeaderMap == InitHeaderMap /\ [][NextHeaderMap]_vars

InitBuilder ==
  /\ ParserIdle
  /\ HeaderMapInit
  /\ BuilderInit
  /\ SendIdle
  /\ ServiceIdle
  /\ ContentIdle
  /\ ObserveIdle
  /\ TasksIdle

NextBuilder ==
  \/ BuilderAddHeader
  \/ BuilderAddHeaders
  \/ BuilderStatusCode
  \/ BuilderBody
  \/ BuilderBuild

\* a response builder under its calls
SpecBuilder == InitBuilder /\ [][NextBuilder]_vars

InitSend ==
  /\ ParserIdle
  /\ HeaderMapInit
  /\ BuilderIdle
  /\ SendInit
  /\ ServiceIdle
  /\ ContentIdle
  /\ ObserveIdle
  /\ TasksIdle

NextSend ==
  \/ SendToString
  \/ SendWritable
  \/ SendTryWrite

\* one Response sent: serialised, then written in the retry loop
SpecSend == InitSend /\ [][NextSend]_vars

\* writable().await returns Ok: the socket has become writable
WritableOk == SendWritable /\ send_at' = "TryWrite"

\* try_write returns Ok(k) with k at least 1: the socket accepts bytes
WriteSome == SendTryWrite /\ Len(send_sent') > Len(send_sent)

\* the same with a socket that becomes writable again and again and accepts
\* at least one byte again and again when it is written to
SpecSendFair ==
  /\ InitSend
  /\ [][NextSend]_vars
  /\ WF_vars(SendToString)
  /\ WF_vars(WritableOk)
  /\ SF_vars(WriteSome)

InitService ==
  /\ ParserIdle
  /\ HeaderMapInit
  /\ BuilderIdle
  /\ SendIdle
  /\ ServiceInit
  /\ ContentIdle
  /\ ObserveIdle
  /\ TasksIdle

NextService ==
  \/ Accept
  \/ AcceptFail
  \/ ConnParse
  \/ HoneypotRoute
  \/ HoneypotSerialize
  \/ HoneypotWrite
  \/ MetricsFourHundred
  \/ MetricsBuild
  \/ MetricsLoopWritable
  \/ MetricsLoopTryWrite
  \/ MetricsTimeout

\* the accept loops and the tasks of the connections they accept
SpecService == InitService /\ [][NextService]_vars

InitFake ==
  /\ NetworkIdle
  /\ FakeInit
  /\ DatetimeIdle
  /\ RouterIdle
  /\ ObserveIdle
  /\ TasksIdle

NextFake == GenFakeListingCall

\* the fake filesystem generated for one request after another
SpecFake == InitFake /\ [][NextFake]_vars

InitDatetime ==
  /\ NetworkIdle
  /\ FakeIdle
  /\ DatetimeInit
  /\ RouterIdle
  /\ ObserveIdle
  /\ TasksIdle

NextDatetime == PlausibleDatetimeCall

\* one modification time drawn
SpecDatetime == InitDatetime /\ [][NextDatetime]_vars

InitRouter ==
  /\ NetworkIdle
  /\ FakeIdle
  /\ DatetimeIdle
  /\ RouterInit
  /\ ObserveIdle
  /\ TasksIdle

NextRouter == RouterCall

\* one Request routed
SpecRouter == InitRouter /\ [][NextRouter]_vars

(***************************************************************************)
(* Properties of the request parser, checked under Spec.                   *)
(***************************************************************************)

\* the failures the design calls Malformed-Request, by where they arise
MalformedRequest == {"start-line", "method", "host", "url"}

\* C2: a POST (with a Host header and a URL that parses) that declares
\* Content-Length: 5 while only 3 body bytes arrive before the peer closes
\* ends in a transport error, never in a parsed Request.
C2_ShortBodyIsTransportError ==
  (/\ state = "Done"
   /\ bodyStart # <<>>
   /\ method = <<"POST">>
   /\ body_len = <<5>>
   /\ Len(wire) - bodyStart[1] = 3
   /\ s_Host \in DOMAIN headers
   /\ UrlParse(s_http \o headers[s_Host][1] \o path[1]) # <<>>)
  => (request = <<>> /\ error = <<"io">>)

\* C3: when a POST or PUT declared Content-Length N and the stream holds N
\* more bytes after the header terminator, the body of a parsed Request is
\* exactly those N bytes, however many of them the read call returned.
C3_BodyIsTheDeclaredBytes ==
  (/\ request # <<>>
   /\ request[1].method \in {"POST", "PUT"}
   /\ body_len # <<>>
   /\ Len(wire) - bodyStart[1] >= body_len[1])
  => request[1].body = SubSeq(wire, bodyStart[1] + 1, bodyStart[1] + body_len[1])

C4_Methods == {"GET", "HEAD", "DELETE", "CONNECT", "OPTIONS", "TRACE"}

\* C4: for a bodiless method the Body state reads nothing and the body of
\* the parsed Request is empty, whatever Content-Length was declared.
C4_BodilessBodyEmpty ==
  /\ (request # <<>> /\ request[1].method \in C4_Methods)
       => (request[1].body = <<>> /\ bodyReads = <<>> /\ pos = bodyStart[1])
  /\ (state = "Done" /\ bodyStart # <<>> /\ method # <<>> /\ method[1] \in C4_Methods)
       => (body = <<>> /\ bodyReads = <<>> /\ pos = bodyStart[1])

\* a DELETE that declared 5 body bytes parsed, the bytes left unread
C4_Witness ==
  /\ request # <<>>
  /\ request[1].method = "DELETE"
  /\ request[1].size = 5
  /\ request[1].body = <<>>
  /\ Len(wire) > pos

C5_MethodNames ==
  {<<"G","E","T">>, <<"H","E","A","D">>, <<"P","O","S","T">>, <<"P","U","T">>,
   <<"D","E","L","E","T","E">>, <<"C","O","N","N","E","C","T">>,
   <<"O","P","T","I","O","N","S">>, <<"T","R","A","C","E">>}

C5_FirstLine == ReadLine(wire, 0)

C5_Spaces == {i \in 1..Len(C5_FirstLine) : C5_FirstLine[i] = " "}

C5_FirstToken ==
  IF C5_Spaces = {} THEN C5_FirstLine
  ELSE SubSeq(C5_FirstLine, 1,
              (CHOOSE i \in C5_Spaces : \A j \in C5_Spaces : i <= j) - 1)

\* three tokens between single spaces, the first one a method name
C5_WellFormed == Cardinality(C5_Spaces) = 2 /\ C5_FirstToken \in C5_MethodNames

C6_HostText(u) ==
  u.host \o (IF u.port = <<>> THEN <<>> ELSE <<":">> \o UsizeToString(u.port[1]))

C6_PathText(u) ==
  u.path \o (IF u.query = <<>> THEN <<>> ELSE <<"?">> \o u.query[1])

\* C6: without a Host header, or when the URL text does not parse, the
\* parser returns an error; a parsed Request's URL has the host (and port)
\* of the first Host value and the path of the start line.
C6_UrlFromHostAndPath ==
  /\ (state = "Done" /\ bodyStart # <<>> /\ error # <<"io">>
        /\ s_Host \notin DOMAIN headers)
       => (request = <<>> /\ error = <<"host">>)
  /\ request # <<>>
       => /\ s_Host \in DOMAIN headers
          /\ C6_HostText(request[1].url) = headers[s_Host][1]
          /\ C6_PathText(request[1].url) = path[1]

C7_NonSpace(s) == {i \in 1..Len(s) : s[i] \notin WhiteSpace}

\* s without its leading and trailing white space
C7_Trimmed(s) ==
  IF C7_NonSpace(s) = {} THEN <<>>
  ELSE SubSeq(s,
              CHOOSE i \in C7_NonSpace(s) : \A j \in C7_NonSpace(s) : i <= j,
              CHOOSE i \in C7_NonSpace(s) : \A j \in C7_NonSpace(s) : i >= j)

\* s without any white space
C7_Squeezed(s) == SelectSeq(s, LAMBDA c : c \notin WhiteSpace)

C7_Colons(s) == {i \in 1..Len(s) : s[i] = ":"}

C7_CookieLine ==
  <<"C","o","o","k","i","e",":"," ","a","s","d","f","=","1","2","3",";"," ","f","g","h","j","=","4","5","6","7",";","s","e","s","s","i","o","n","=","s","o","m","e","i","d","\r","\n">>

C7_CookieValues ==
  <<<<"a","s","d","f","=","1","2","3">>,
    <<"f","g","h","j","=","4","5","6","7">>,
    <<"s","e","s","s","i","o","n","=","s","o","m","e","i","d">>>>

\* C7: a header line is split at its first ':' and the value trimmed; for a
\* name of the list-header table the value is split on that header's
\* delimiter into trimmed values, otherwise it is one value.
C7_HeaderLineValues ==
  lastHeader # <<>> =>
    LET line == lastHeader[1].line
        name == lastHeader[1].name
        vals == lastHeader[1].vals
        colon == CHOOSE i \in C7_Colons(line) : \A j \in C7_Colons(line) : i <= j
        value == C7_Trimmed(SubSeq(line, colon + 1, Len(line)))
        delim == KnownListDelim([i \in 1..Len(name) |-> LowerChar(name[i])])
    IN
    /\ C7_Colons(line) # {}
    /\ name = SubSeq(line, 1, colon - 1)
    /\ IF delim = <<>>
       THEN vals = <<value>>
       ELSE /\ Len(vals) = Cardinality({i \in 1..Len(value) : value[i] = delim[1]}) + 1
            /\ \A i \in 1..Len(vals) :
                 /\ vals[i] = C7_Trimmed(vals[i])
                 /\ \A k \in 1..Len(vals[i]) : vals[i][k] # delim[1]
            /\ C7_Squeezed(Join(vals, <<delim[1]>>)) = C7_Squeezed(value)
    /\ line = C7_CookieLine => vals = C7_CookieValues
    /\ name \in DOMAIN headers
    /\ Len(headers[name]) >= Len(vals)
    /\ SubSeq(headers[name], Len(headers[name]) - Len(vals) + 1, Len(headers[name])) = vals

\* the Cookie line of the repository's test was read: three values
C7_Witness ==
  /\ lastHeader # <<>>
  /\ lastHeader[1].line = C7_CookieLine
  /\ Len(lastHeader[1].vals) = 3

\* the ','- and ';'-separated elements of all values of a header
C9_Elements(req, name) ==
  IF name \in DOMAIN req.headers
  THEN Split(Join(req.headers[name], <<",">>), {",", ";"})
  ELSE <<>>

C9_IsFor(e) ==
  LET eq == {i \in 1..Len(e) : e[i] = "="} IN
  /\ eq # {}
  /\ ToLower(C7_Trimmed(SubSeq(e, 1, (CHOOSE i \in eq : \A j \in eq : i <= j) - 1)))
       = s_for

C9_ForValue(e) ==
  LET eq == {i \in 1..Len(e) : e[i] = "="} IN
  C7_Trimmed(SubSeq(e, (CHOOSE i \in eq : \A j \in eq : i <= j) + 1, Len(e)))

\* the for= parameters of the Forwarded header, in order
C9_ForParams(req) ==
  LET fors == SelectSeq(C9_Elements(req, s_Forwarded), C9_IsFor) IN
  [i \in 1..Len(fors) |-> C9_ForValue(fors[i])]

\* C9: the requester is the for= parameter of the Forwarded header if there
\* is one, else the first trimmed entry of X-Forwarded-For if that header is
\* present, else the peer address.
C9_RequesterPrecedence ==
  who # <<>> =>
    who[1] = (IF C9_ForParams(request[1]) # <<>>
              THEN C9_ForParams(request[1])[1]
              ELSE IF s_XForwardedFor \in DOMAIN request[1].headers
              THEN C7_Trimmed(C9_Elements(request[1], s_XForwardedFor)[1])
              ELSE PeerAddr)

\* C10: when a parsed Forwarded header holds a for= parameter in any of its
\* elements, the requester is that parameter (its name matched whatever
\* its case): it is neither the X-Forwarded-For entry nor the peer address.
C10_ForwardedForFound ==
  (who # <<>> /\ C9_ForParams(request[1]) # <<>>)
  => /\ \E i \in 1..Len(C9_ForParams(request[1])) :
          ToLower(who[1]) = ToLower(C9_ForParams(request[1])[i])
     /\ who[1] # PeerAddr

(***************************************************************************)
(* Properties of the header map, checked under SpecHeaderMap.              *)
(***************************************************************************)

\* the values added under a name, in the order of their addition
C8_Added(name) ==
  LET sel == SelectSeq(hlog, LAMBDA e : e[1] = name) IN
  [i \in 1..Len(sel) |-> sel[i][2]]

C8_Names == (DOMAIN hmap) \cup {hlog[i][1] : i \in 1..Len(hlog)} \cup AddNames

\* C8: after any sequence of additions, get(name) is exactly the values
\* added under that name, in the order they were added; a name nothing was
\* added under is absent.
C8_AdditionsAppend ==
  \A name \in C8_Names :
    HeadersGet(hmap, name) =
      (IF C8_Added(name) = <<>> THEN <<>> ELSE <<C8_Added(name)>>)

\* Cookie a=1 then Cookie b=2 were added: both values, in that order
C8_Witness ==
  /\ hlog = <<<<s_Cookie, <<"a","=","1">>>>, <<s_Cookie, <<"b","=","2">>>>>>
  /\ HeadersGet(hmap, s_Cookie) = <<<<<<"a","=","1">>, <<"b","=","2">>>>>>

(***************************************************************************)
(* Properties of the response builder, checked under SpecBuilder.          *)
(***************************************************************************)

\* C1: a Response built right after body(B) has exactly one Content-Length
\* value, the byte length of B, whatever was called before.
C1_ContentLengthIsBodyLength ==
  LET n == Len(b_calls) IN
  (/\ n >= 2
   /\ b_calls[n][1] = "build"
   /\ b_calls[n - 1][1] = "body"
   /\ built # <<>>
   /\ built[1].ok)
  => HeadersGet(built[1].headers, s_ContentLength)
       = <<<<UsizeToString(Len(b_calls[n - 1][2]))>>>>

\* C20: build() gives an error and no Response when the status code or the
\* body was never set, naming the first such field; it succeeds only with
\* status code, body and headers present, and the Response holds them.
C20_BuildNeedsStatusAndBody ==
  LET n == Len(b_calls) IN
  (n >= 1 /\ b_calls[n][1] = "build") =>
    /\ built # <<>>
    /\ built[1].ok <=> (b_status_code # <<>> /\ b_body # <<>>)
    /\ b_status_code = <<>> => built[1] = [ok |-> FALSE, missing |-> "status_code"]
    /\ (b_status_code # <<>> /\ b_body = <<>>)
         => built[1] = [ok |-> FALSE, missing |-> "body"]
    /\ built[1].ok =>
         /\ b_headers # <<>>
         /\ built[1].status_code = b_status_code[1]
         /\ built[1].body = b_body[1]
         /\ built[1].headers = b_headers[1]

\* ok() or not_found() built without a body: an error, no Response
C20_Witness ==
  /\ b_calls = <<<<"build">>>>
  /\ b_status_code # <<>>
  /\ built = <<[ok |-> FALSE, missing |-> "body"]>>

\* C16: a Response built with body B carries a Content-Length header whose
\* value, as it is rendered, parses to the number of bytes of B.
C16_ContentLengthRoundTrip ==
  LET n == Len(b_calls) IN
  (n >= 1 /\ b_calls[n][1] = "build" /\ built # <<>> /\ built[1].ok) =>
    /\ s_ContentLength \in DOMAIN built[1].headers
    /\ ParseUsize(HeaderValueText(built[1].headers[s_ContentLength]))
         = <<Len(built[1].body)>>

(***************************************************************************)
(* Properties of serialisation and transmission, checked under SpecSend.   *)
(***************************************************************************)

\* C11: the bytes the socket has accepted are always an in-order prefix of
\* the serialised response; inside the loop the offset is the number of
\* bytes accepted (a partial write advances it by what was taken, a
\* would-block leaves it); send returns Ok only with every byte accepted.
C11_WrittenIsPrefix ==
  /\ send_buf = <<>> => send_sent = <<>>
  /\ send_buf # <<>> =>
       /\ Len(send_sent) <= Len(send_buf[1])
       /\ send_sent = SubSeq(send_buf[1], 1, Len(send_sent))
       /\ send_at \in {"Writable", "TryWrite"}
            => (send_n = Len(send_sent) /\ send_n < Len(send_buf[1]))
       /\ send_at = "Ok" => send_sent = send_buf[1]
  /\ send_at = "Ok" => send_buf # <<>>

\* send returned Ok after partial writes had moved the offset
C11_Witness ==
  /\ send_at = "Ok"
  /\ send_n > 0
  /\ send_sent = send_buf[1]

RECURSIVE C17_Lines(_)
\* the text between the CRLFs of s
C17_Lines(s) ==
  LET at == {i \in 1..(Len(s) - 1) : s[i] = "\r" /\ s[i + 1] = "\n"} IN
  IF at = {} THEN <<s>>
  ELSE LET i == CHOOSE x \in at : \A y \in at : x <= y IN
       <<SubSeq(s, 1, i - 1)>> \o C17_Lines(SubSeq(s, i + 2, Len(s)))

\* the numeric codes of the statuses sent
C17_Code(name) ==
  CASE name = "Ok" -> <<"2","0","0">>
    [] name = "NotFound" -> <<"4","0","4">>
    [] name = "MethodNotAllowed" -> <<"4","0","5">>

\* C17: the serialised response is the status line (version, HTTP/1.1 when
\* none was set, numeric code, reason phrase), one line per header, an empty
\* line and the body, joined with CRLF.
C17_SerializedLayout ==
  send_buf # <<>> =>
    LET r == resp[1]
        lines == C17_Lines(send_buf[1])
        H == Cardinality(DOMAIN r.headers)
    IN
    /\ Len(lines) = H + 3
    /\ lines[1] = (IF r.version = <<>> THEN <<"H","T","T","P","/","1",".","1">> ELSE r.version[1])
                    \o <<" ">> \o C17_Code(r.status_code)
                    \o <<" ">> \o ReasonPhrase(r.status_code)
    /\ \A k \in DOMAIN r.headers :
         Cardinality({i \in 2..(H + 1) :
                        lines[i] = k \o <<":", " ">> \o Join(r.headers[k], <<",", " ">>)}) = 1
    /\ lines[H + 2] = <<>>
    /\ lines[H + 3] = r.body

\* a 405 response with a two-valued Allow header was serialised
C17_Witness ==
  /\ send_buf # <<>>
  /\ resp[1].status_code = "MethodNotAllowed"
  /\ Len(resp[1].headers[s_Allow]) = 2

\* C18: a header of the delimiter table that holds several values is
\* rendered in the serialised response as Headers::into_string renders it,
\* joined with the delimiter of the table.
C18_DelimiterAgrees ==
  send_buf # <<>> =>
    LET r == resp[1]
        lines == C17_Lines(send_buf[1])
    IN
    \A k \in DOMAIN r.headers :
      (Len(r.headers[k]) > 1 /\ KnownListDelim(ToLower(k)) # <<>>) =>
        /\ \E i \in 1..Len(lines) :
             lines[i] = HeadersIntoString([n \in {k} |-> r.headers[k]], <<k>>)
        /\ \E i \in 1..Len(lines) :
             lines[i] = k \o <<":", " ">>
                          \o Join(r.headers[k], KnownListDelim(ToLower(k)))

\* the bodies sent that are not UTF-8 text
C19_NotText == {<<"a", "xFF">>, <<"xC3">>}

\* C19: serialising a Response whose body is not UTF-8 text fails and gives
\* no output; send fails on it before any write attempt, so no byte of it
\* reaches the socket.
C19_InvalidBodyNotSent ==
  /\ (resp # <<>> /\ resp[1].body \in C19_NotText) =>
       /\ \A ord \in IterOrders(DOMAIN resp[1].headers) : IntoString(resp[1], ord) = <<>>
       /\ send_buf = <<>>
       /\ send_sent = <<>>
       /\ ~send_tried
       /\ send_at \in {"Start", "Err"}
       /\ send_at = "Err" => send_error = <<"utf8">>
  /\ send_error = <<"utf8">> => resp[1].body \in C19_NotText

\* send failed on a body that is not text
C19_Witness ==
  /\ send_at = "Err"
  /\ send_error = <<"utf8">>
  /\ resp[1].body = <<"a", "xFF">>

(***************************************************************************)
(* Properties of the service, checked under SpecService.                   *)
(***************************************************************************)

\* C12: a honeypot connection whose handler ended successfully has had the
\* complete serialised response written to it.
C12_SuccessMeansAllWritten ==
  \A i \in 1..Len(conns) :
    (conns[i].kind = "honeypot" /\ conns[i].result = "Ok") =>
      /\ conns[i].buf # <<>>
      /\ conns[i].sent = conns[i].buf[1]

\* the positions at which a handler is transmitting its response
C13_Transmitting == {"Write", "FourHundred", "LoopWritable", "LoopTryWrite"}

\* C13: every response transmission runs under a write timeout, and a task
\* whose timeout fired has ended with an error.
C13_TransmissionUnderTimeout ==
  \A i \in 1..Len(conns) :
    /\ conns[i].at \in C13_Transmitting => conns[i].timer = "armed"
    /\ conns[i].timer = "fired" => (conns[i].at = "Done" /\ conns[i].result = "Err")

\* C14: when parse_request failed for a connection, its task has ended with
\* that error, no response was made for it and no byte was written to it.
C14_NoResponseAfterParseError ==
  \A i \in 1..Len(conns) :
    /\ conns[i].parse \notin {"", "ok"} =>
         /\ conns[i].at = "Done"
         /\ conns[i].result = "Err"
         /\ conns[i].error = conns[i].parse
         /\ conns[i].buf = <<>>
         /\ conns[i].sent = <<>>
         /\ conns[i].timer = "none"
    /\ (conns[i].buf # <<>> \/ conns[i].sent # <<>>) => conns[i].parse = "ok"

\* a honeypot connection with a malformed start line was dropped unanswered
C14_Witness ==
  \E i \in 1..Len(conns) :
    /\ conns[i].kind = "honeypot"
    /\ conns[i].parse = "start-line"
    /\ conns[i].at = "Done"
    /\ conns[i].sent = <<>>

\* C15: whatever failed, in a connection or in accept, the accept loops go
\* on: they are still accepting, every accepted connection got a task, a
\* further connection can be accepted, and a step of one connection's task
\* changes no other connection.
C15_ServiceKeepsAccepting ==
  /\ [](/\ listener = "Listening"
        /\ Len(conns) = Cardinality({k \in 1..Len(accepts) : accepts[k] = "ok"})
        /\ (Len(conns) < MaxConns /\ Len(accepts) < MaxAccepts) => ENABLED Accept)
  /\ [][\A i \in 1..Len(conns) :
          conns'[i] # conns[i] => \A j \in 1..Len(conns) : j # i => conns'[j] = conns[j]]_vars

\* after a connection failed and an accept failed, a later connection was
\* accepted and served
C15_Witness ==
  /\ listener = "Listening"
  /\ Len(conns) = 2
  /\ \E k \in 1..Len(accepts) : accepts[k] = "fail"
  /\ conns[1].result = "Err"
  /\ conns[2].seen_failures = 1
  /\ conns[2].result = "Ok"

\* the numbers of the supported status enumeration
C21_Supported == {StatusCodeAsI32(name) : name \in StatusCodeNames}

\* the position in b_calls of the last status_code call, 0 when there is none
C21_LastStatusCall ==
  LET S == {i \in 1..Len(b_calls) : b_calls[i][1] = "status_code"} IN
  IF S = {} THEN 0 ELSE CHOOSE i \in S : \A j \in S : j <= i

\* C21: no Response carries a status outside the supported enumeration;
\* build() after status_code(n) with n unsupported is an error for the missing
\* status code, also when a valid status was set before; with n supported the
\* built Response has status n.
C21_UnsupportedStatusRejected ==
  LET n == Len(b_calls)
      ls == C21_LastStatusCall
  IN
  /\ (built # <<>> /\ built[1].ok) => built[1].status_code \in C21_Supported
  /\ (n >= 1 /\ b_calls[n][1] = "build" /\ ls > 0) =>
       /\ b_calls[ls][2] \notin C21_Supported
            => built = <<[ok |-> FALSE, missing |-> "status_code"]>>
       /\ (b_calls[ls][2] \in C21_Supported /\ built[1].ok)
            => built[1].status_code = b_calls[ls][2]

\* status_code(200), body, status_code(999), build: an error, no Response
C21_Witness ==
  /\ Len(b_calls) = 4
  /\ b_calls[1] = <<"status_code", 200>>
  /\ b_calls[2][1] = "body"
  /\ b_calls[3] = <<"status_code", 999>>
  /\ b_calls[4] = <<"build">>
  /\ built = <<[ok |-> FALSE, missing |-> "status_code"]>>

(***************************************************************************)
(* Properties of the router and of signature mimicry, checked under        *)
(* SpecRouter.                                                             *)
(***************************************************************************)

\* the functions behind the method filter
C22_Behind ==
  {"is_easter_egg", "easter_egg", "hello_world", "not_found", "fake_directory_tree"}

\* C22: a request whose method is neither GET nor OPTIONS is answered with
\* status 405 and an Allow header holding GET and OPTIONS, and router called
\* neither the signature check nor signature mimicry, the fake content
\* generator or a static page for it.
C22_MethodFilterFirst ==
  (r_out # <<>> /\ r_req[1].method \notin {"GET", "OPTIONS"}) =>
    /\ r_out[1].result.ok
    /\ r_out[1].result.status_code = 405
    /\ HeadersGet(r_out[1].result.headers, s_Allow) = <<<<s_GET, s_OPTIONS>>>>
    /\ \A i \in 1..Len(r_out[1].calls) : r_out[1].calls[i] \notin C22_Behind

\* a POST with a signature in its query, to a directory: 405
C22_Witness ==
  /\ r_out # <<>>
  /\ r_req[1].method = "POST"
  /\ r_req[1].url.path = <<"/","a","/">>
  /\ r_req[1].url.query = <<<<"=">> \o s_PHPB8B5F2A0>>
  /\ r_out[1].result.ok
  /\ r_out[1].result.status_code = 405

\* the default headers a response may have been built on
C23_DefaultHeaders ==
  {DefaultHeaders(server, date) : server \in ServerValues, date \in DateValues}

\* C23: for GET and OPTIONS the signature check comes first; when it matches
\* the result is that of signature mimicry whatever the path; otherwise
\* /hello gives the hello page, /favicon.ico 404, any other path ending in
\* '/' the fake directory listing of that path, every other path 404.
C23_RoutingOrder ==
  (r_out # <<>> /\ r_req[1].method \in {"GET", "OPTIONS"}) =>
    LET req == r_req[1]
        out == r_out[1]
        p == req.url.path
    IN
    /\ out.calls[1] = "is_easter_egg"
    /\ IsEasterEgg(req) =>
         /\ out.calls = <<"is_easter_egg", "easter_egg">>
         /\ \E hd \in C23_DefaultHeaders : out.result = EasterEgg(req, hd)
    /\ ~IsEasterEgg(req) =>
         /\ Len(out.calls) = 2
         /\ out.result.ok
         /\ IF p = s_hello
            THEN /\ out.calls[2] = "hello_world"
                 /\ out.result.status_code = 200
                 /\ out.result.body = Boilerplate(s_HelloWorld, H1(s_HelloCommaWorld))
            ELSE IF p = s_favicon
            THEN out.calls[2] = "not_found" /\ out.result.status_code = 404
            ELSE IF p[Len(p)] = "/"
            THEN /\ out.calls[2] = "fake_directory_tree"
                 /\ out.result.status_code = 200
                 /\ \E now \in FakeNows :
                      out.result.body
                        = ListingDoc(p, GenFakeNodes(s_seedv1, p, now).value)
            ELSE out.calls[2] = "not_found" /\ out.result.status_code = 404

\* GET /hello with a signature in the query: the image response, not the
\* hello page
C23_Witness ==
  /\ r_out # <<>>
  /\ r_req[1].method = "GET"
  /\ r_req[1].url.path = s_hello
  /\ r_req[1].url.query = <<<<"=">> \o s_PHPE9568F34>>
  /\ r_out[1].calls = <<"is_easter_egg", "easter_egg">>
  /\ r_out[1].result.ok
  /\ HeadersGet(r_out[1].result.headers, s_ContentType) = <<<<s_imagegif>>>>

\* 'PHP' and groups of 8, 4, 4, 4 and 12 hexadecimal digits, with '-' between
C24_Shape(s) ==
  LET hex(a, b) == \A i \in a..b : s[i] \in HexDigits IN
  /\ Len(s) = 39
  /\ SubSeq(s, 1, 3) = <<"P","H","P">>
  /\ hex(4, 11) /\ s[12] = "-"
  /\ hex(13, 16) /\ s[17] = "-"
  /\ hex(18, 21) /\ s[22] = "-"
  /\ hex(23, 26) /\ s[27] = "-"
  /\ hex(28, 39)

\* a part of the value has the shape
C24_Matches(v) == \E i \in 1..(Len(v) - 38) : C24_Shape(SubSeq(v, i, i + 38))

\* the query holds a pair with an empty name and a matching value
C24_SignatureInQuery(query) ==
  /\ query # <<>>
  /\ \E i \in 1..Len(Split(query[1], {"&"})) :
       LET piece == Split(query[1], {"&"})[i] IN
       /\ piece # <<>>
       /\ piece[1] = "="
       /\ C24_Matches(FormDecode(Tail(piece)))

\* C24: is_easter_egg is true exactly when the query string holds a pair with
\* an empty name whose value matches 'PHP' and hexadecimal groups of 8-4-4-4-12
\* digits: false without a query, with named parameters only, with an
\* empty-named value that does not match; the query alone decides it.
C24_DetectionPredicate ==
  r_req # <<>> =>
    /\ IsEasterEgg(r_req[1]) <=> C24_SignatureInQuery(r_req[1].url.query)
    /\ r_req[1].url.query = <<>> => ~IsEasterEgg(r_req[1])
    /\ r_req[1].url.query
         = <<<<"1","=","2","&","3","=","4","&","6","=","&","=","5">>>>
         => ~IsEasterEgg(r_req[1])
    /\ (r_out # <<>> /\ r_req[1].method \in {"GET", "OPTIONS"})
         => (IsEasterEgg(r_req[1]) <=> "easter_egg" \in {r_out[1].calls[i] : i \in 1..Len(r_out[1].calls)})

\* a signature as the value of the second pair with an empty name, detected
C24_Witness ==
  /\ r_out # <<>>
  /\ r_req[1].method = "GET"
  /\ r_req[1].url.query = <<<<"=","5","&","=">> \o s_PHPE9568F36>>
  /\ IsEasterEgg(r_req[1])
  /\ r_out[1].calls = <<"is_easter_egg", "easter_egg">>

\* the value of the first pair with an empty name that matches
C25_Value(req) == EasterEggValue(req)[1]

\* C25: egg resolution gives, for the values ending in F34, F35 and F36, the
\* image response (status 200, Content-Type image/gif, a body of 2985 bytes),
\* for PHPB8B5F2A0-3C92-11d3-A3A9-4C7B08C10000 the HTML credits response, and
\* every canned response has the header X-Powered-By: PHP/4.0.1.
C25_CannedResponses ==
  (r_out # <<>> /\ r_out[1].calls = <<"is_easter_egg", "easter_egg">>) =>
    LET v == C25_Value(r_req[1])
        res == r_out[1].result
    IN
    /\ v \in {s_PHPE9568F34, s_PHPE9568F35, s_PHPE9568F36} =>
         /\ res.ok
         /\ res.status_code = 200
         /\ HeadersGet(res.headers, s_ContentType) = <<<<s_imagegif>>>>
         /\ Len(res.body) = 2985
    /\ v = s_PHPB8B5F2A0 =>
         /\ res.ok
         /\ res.status_code = 200
         /\ HeadersGet(res.headers, s_ContentType) = <<<<s_texthtml>>>>
         /\ res.body = PhpCreditsHtml
    /\ res.ok => HeadersGet(res.headers, s_XPoweredBy) = <<<<s_PHP401>>>>

\* OPTIONS /favicon.ico?=PHPE9568F35-...: the image response
C25_Witness ==
  /\ r_out # <<>>
  /\ r_req[1].method = "OPTIONS"
  /\ r_req[1].url.query = <<<<"=">> \o s_PHPE9568F35>>
  /\ r_out[1].result.ok
  /\ Len(r_out[1].result.body) = 2985
  /\ HeadersGet(r_out[1].result.headers, s_XPoweredBy) = <<<<s_PHP401>>>>

\* C26: egg resolution called after the detection predicate returned true, as
\* the router calls it, returns a canned response and never the error of an
\* unknown value.
C26_ResolutionNeverFails ==
  (r_out # <<>> /\ r_out[1].calls = <<"is_easter_egg", "easter_egg">>) =>
    r_out[1].result.ok

(***************************************************************************)
(* Properties of the fake filesystem, checked under SpecFake and           *)
(* SpecDatetime.                                                           *)
(***************************************************************************)

C28_Names(call) == [k \in 1..Len(call.nodes) |-> NodeName(call.nodes[k])]

\* C28: for a fixed seed and path the names of the listing, and their order,
\* are the same at any two request times.
C28_NamesIndependentOfNow ==
  \A i, j \in 1..Len(g_calls) :
    (g_calls[i].seed = g_calls[j].seed /\ g_calls[i].path = g_calls[j].path)
    => C28_Names(g_calls[i]) = C28_Names(g_calls[j])

\* a text of letters and digits
C29_Alphanumeric(s) ==
  \A i \in 1..Len(s) : s[i] \in {AlphanumericCharset[k] : k \in 1..Len(AlphanumericCharset)}

\* a base of 4 to 10 characters, a dot, an extension of 1 to 3 characters
C29_FileName(s) ==
  \E k \in 5..11 :
    /\ k <= Len(s)
    /\ s[k] = "."
    /\ C29_Alphanumeric(SubSeq(s, 1, k - 1))
    /\ Len(s) - k \in 1..3
    /\ C29_Alphanumeric(SubSeq(s, k + 1, Len(s)))

\* C29: a listing has 4 to 15 folders, then 2 to 8 files; a folder name has
\* 6 to 15 alphanumeric characters, a file name a base of 4 to 10, a dot and
\* an extension of 1 to 3, and a file size lies in [0, 32 MiB].
C29_ListingShape ==
  \A c \in 1..Len(g_calls) :
    LET nodes == g_calls[c].nodes
        folders == {k \in 1..Len(nodes) : nodes[k].kind = "Folder"}
        files == {k \in 1..Len(nodes) : nodes[k].kind = "File"}
    IN
    /\ Cardinality(folders) \in 4..15
    /\ Cardinality(files) \in 2..8
    /\ \A a \in folders, b \in files : a < b
    /\ \A k \in folders :
         Len(nodes[k].name) \in 6..15 /\ C29_Alphanumeric(nodes[k].name)
    /\ \A k \in files :
         /\ C29_FileName(nodes[k].name)
         /\ nodes[k].size \in 0..(32 * 1024 * 1024)

\* a listing generated for the seed of the router
C29_Witness ==
  /\ Len(g_calls) >= 1
  /\ g_calls[1].seed = s_seedv1
  /\ g_calls[1].path = <<"/">>
  /\ Len(g_calls[1].nodes) \in 6..23
  /\ g_calls[1].nodes[1].kind = "Folder"
  /\ g_calls[1].nodes[Len(g_calls[1].nodes)].kind = "File"

\* the days of a month of the calendar
C30_DaysIn(y, m) ==
  IF m = 2
  THEN (IF y % 400 = 0 \/ (y % 4 = 0 /\ y % 100 # 0) THEN 29 ELSE 28)
  ELSE IF m \in {4, 6, 9, 11} THEN 30 ELSE 31

\* the fields of an instant, the coarsest first
C30_Fields(t) == <<t.year, t.month, t.day, t.hour, t.minute, t.second>>

\* a is not after b, field by field from the coarsest
C30_NotAfter(a, b) ==
  \/ a = b
  \/ \E k \in 1..6 :
       /\ \A i \in 1..(k - 1) : a[i] = b[i]
       /\ a[k] < b[k]

\* C30: plausible_datetime returns a valid calendar timestamp t with
\* 2000-01-01T00:00:00Z <= t <= now; a finer field is drawn up to now's value
\* exactly when all coarser fields equal now's, up to the end of its full
\* range otherwise, and the day is never beyond the days of the month drawn.
C30_PlausibleDatetime ==
  d_out # <<>> =>
    LET now == C30_Fields(d_now[1])
        out == d_out[1]
    IN
    /\ out.value # <<>>
    /\ LET t == C30_Fields(out.value[1])
           full == <<now[1], 12, C30_DaysIn(t[1], t[2]), 23, 59, 59>>
       IN
       /\ t[2] \in 1..12
       /\ t[3] \in 1..C30_DaysIn(t[1], t[2])
       /\ t[4] \in 0..23 /\ t[5] \in 0..59 /\ t[6] \in 0..59
       /\ C30_NotAfter(<<2000, 1, 1, 0, 0, 0>>, t)
       /\ C30_NotAfter(t, now)
       /\ Len(out.highs) = 6
       /\ \A k \in 1..6 :
            out.highs[k]
              = IF \A i \in 1..(k - 1) : t[i] = now[i] THEN now[k] ELSE full[k]

\* a time of the very day, hour and minute of now: every field was drawn up
\* to now's value
C30_Witness ==
  /\ d_out # <<>>
  /\ d_now[1] = DateTime(2000, 1, 2, 1, 1, 1)
  /\ d_out[1].value # <<>>
  /\ d_out[1].value[1].day = 2
  /\ d_out[1].value[1].hour = 1
  /\ d_out[1].value[1].minute = 1
  /\ d_out[1].highs = <<2000, 1, 2, 1, 1, 1>>

(***************************************************************************)
(* Properties of the metrics wrapper, checked under Spec.                  *)
(***************************************************************************)

\* C31: observe_request returns exactly the Result of the wrapped parse: an
\* Err unchanged, an Ok(Request) with every field unchanged; what it records
\* never turns a success into a failure or a failure into a success.
C31_ResultPassedThrough ==
  observed # <<>> =>
    /\ state = "Done"
    /\ observed[1] = ParseResult
    /\ observed[1].ok = (error = <<>>)
    /\ observed[1].ok => observed[1].req = request[1]
    /\ ~observed[1].ok => observed[1].error = error[1]

\* a POST with a body was parsed and observed: the three request metrics
\* were recorded and the Request came back
C31_Witness ==
  /\ observed # <<>>
  /\ observed[1].ok
  /\ observed[1].req.method = "POST"
  /\ observed[1].req.size = 5
  /\ Len(o_metrics) = 3
  /\ o_metrics[2].value = 5

(***************************************************************************)
(* Properties of the state loop of parse_request, checked under Spec.      *)
(***************************************************************************)

RECURSIVE C32_HeaderLinesFrom(_)
\* how many lines from offset p of the wire on hold a ':' before the first
\* that holds none (the end of the stream reads as an empty line)
C32_HeaderLinesFrom(p) ==
  LET line == ReadLine(wire, p) IN
  IF ":" \in {line[j] : j \in 1..Len(line)}
  THEN 1 + C32_HeaderLinesFrom(p + Len(line))
  ELSE 0

\* the header lines that follow the start line
C32_HeaderLines == C32_HeaderLinesFrom(Len(ReadLine(wire, 0)))

\* the iterations of the loop made in state s
C32_Visits(s) == Cardinality({i \in 1..Len(visited) : visited[i] = s})

\* C32: parse_request moves through its states forward only: the start line
\* is read once, the Headers state repeats for each line that holds a ':',
\* the first line without one ends the header block, Body is entered at
\* most once and ends the loop; no state is entered again and no line is
\* read after the end of the header block.
C32_ForwardOnly ==
  /\ \A i \in 1..Len(visited) :
       /\ visited[i] = "Version" <=> i = 1
       /\ visited[i] = "Body" => i = Len(visited) /\ state = "Done"
       /\ visited[i] = "Headers" => \A k \in 2..i : visited[k] = "Headers"
  /\ state = "Version" <=> visited = <<>>
  /\ state = "Headers" => visited[Len(visited)] \in {"Version", "Headers"}
  /\ state = "Body" => visited[Len(visited)] = "Headers"
  /\ lineReads = C32_Visits("Version") + C32_Visits("Headers")
  /\ C32_Visits("Version") <= 1
  /\ C32_Visits("Body") <= 1
  /\ \A n \in {C32_HeaderLines} :
       /\ C32_Visits("Headers") <= n + 1
       /\ bodyStart # <<>> =>
            /\ C32_Visits("Headers") = n + 1
            /\ lineReads = n + 2
            /\ state \in {"Body", "Done"}
  /\ bodyStart # <<>> <=> state = "Body" \/ C32_Visits("Body") = 1

\* two header lines were read, then a line without ':' that is not empty
\* ended the header block, and the Body state ended the loop
C32_Witness ==
  /\ state = "Done"
  /\ visited = <<"Version", "Headers", "Headers", "Headers", "Body">>
  /\ lineReads = 4
  /\ SubSeq(wire, bodyStart[1] - 2, bodyStart[1]) = <<"x", "\r", "\n">>
  /\ request # <<>>

(***************************************************************************)
(* Termination of parse_request, checked under SpecFair.                   *)
(***************************************************************************)

RECURSIVE C33_HeaderEndFrom(_)
\* the offset behind the lines that hold a ':', from offset p of the wire on
C33_HeaderEndFrom(p) ==
  LET line == ReadLine(wire, p) IN
  IF ":" \in {line[j] : j \in 1..Len(line)}
  THEN C33_HeaderEndFrom(p + Len(line))
  ELSE p

\* the stream ends inside the header block: a start line, header lines, and
\* no line without ':' behind them
C33_CutOff ==
  /\ Len(ReadLine(wire, 0)) < Len(wire)
  /\ C33_HeaderEndFrom(Len(ReadLine(wire, 0))) = Len(wire)

\* C33: parse_request terminates on every stream that ends; a request cut
\* off inside the header block leaves the Headers state on the empty line
\* read at the end of the stream and is parsed from the headers received,
\* neither looping nor failing for the lack of a terminator.
C33_TerminatesAtEndOfStream ==
  /\ <>(state = "Done")
  /\ [](state = "Done" /\ C33_CutOff =>
          /\ error # <<>> => error[1] \in {"io", "start-line", "method",
                                           "content-length", "host", "url"}
          /\ (error = <<>> \/ error[1] \in {"host", "url"}) =>
               /\ visited[Len(visited)] = "Body"
               /\ bodyStart = <<Len(wire)>>
               /\ lineReads = C32_HeaderLines + 2
               /\ lastHeader # <<>>
               /\ lastHeader[1].name \in DOMAIN headers
          /\ error = <<>> =>
               /\ request # <<>>
               /\ request[1].headers = headers
               /\ s_Host \in DOMAIN request[1].headers)

\* a request cut off behind its second header line was parsed
C33_Witness ==
  /\ state = "Done"
  /\ C33_CutOff
  /\ request # <<>>
  /\ lineReads = 4
  /\ pos = Len(wire)
  /\ Cardinality(DOMAIN request[1].headers) = 2

(***************************************************************************)
(* Properties of the write loop, checked under SpecSend.                   *)
(***************************************************************************)

\* C34: in the write loop the first I/O error that is not WouldBlock, of
\* writable or of try_write, ends the loop with an error: nothing is
\* attempted on the connection after it and send never returns Ok after it.
C34_ErrorEndsLoop ==
  /\ send_ioerr =>
       /\ send_at = "Err"
       /\ send_error \in {<<"writable">>, <<"write">>}
  /\ send_after = 0
  /\ send_at = "Ok" => ~send_ioerr /\ send_error = <<>>
  /\ send_error \in {<<"writable">>, <<"write">>} => send_ioerr

\* a part of the response was written, then try_write returned an error
\* and send returned Err with the rest unwritten
C34_Witness ==
  /\ send_at = "Err"
  /\ send_error = <<"write">>
  /\ send_ioerr
  /\ send_n > 0
  /\ send_sent = SubSeq(send_buf[1], 1, send_n)
  /\ send_n < Len(send_buf[1])

\* C35: the write loop has no deadline of its own: a try_write that takes
\* no byte while bytes remain, WouldBlock or Ok(0), leads back to the wait
\* for writability with nothing changed, as often as it happens; with a
\* socket that becomes writable again and again and accepts at least one
\* byte again and again, send returns Ok after finitely many attempts
\* unless an error ends it.
C35_NoDeadlineButProgress ==
  /\ [][(/\ send_at = "TryWrite"
         /\ send_sent' = send_sent
         /\ send_ioerr' = send_ioerr
         /\ send_n < Len(send_buf[1]))
        => (/\ send_at' = "Writable"
            /\ send_n' = send_n
            /\ send_buf' = send_buf
            /\ send_error' = send_error
            /\ send_after' = send_after)]_vars
  /\ <>(send_at = "Ok" \/ send_error # <<>>)
  /\ [](send_at = "Ok" => send_sent = send_buf[1])

\* send returned Ok after a turn that wrote nothing and turns that wrote a
\* part
C35_Witness ==
  /\ send_at = "Ok"
  /\ send_n > 0
  /\ send_n < Len(send_buf[1])
  /\ send_sent = send_buf[1]
  /\ send_error = <<>>

\* the place of a position of process_socket in the order of its steps
C36_Order(at) ==
  CASE at = "Parse" -> 1
    [] at = "Route" -> 2
    [] at = "Serialize" -> 3
    [] at = "Write" -> 4
    [] OTHER -> 5

\* C36: the steps of a honeypot connection are strictly ordered: the router
\* is invoked only with a parsed request, serialisation starts only with
\* the Response the router returned, a byte is written only from the
\* complete buffer, and the handler only moves forward through parse,
\* route, serialise, write.
C36_StepsInOrder ==
  /\ [](\A i \in 1..Len(conns) :
          conns[i].kind = "honeypot" =>
            /\ conns[i].at \in {"Route", "Serialize", "Write"} => conns[i].parse = "ok"
            /\ conns[i].at = "Parse" => (conns[i].parse = "" /\ conns[i].resp = <<>>)
            /\ conns[i].at \in {"Parse", "Route"} => conns[i].resp = <<>>
            /\ conns[i].resp # <<>> => conns[i].parse = "ok"
            /\ conns[i].at \in {"Serialize", "Write"} => conns[i].resp # <<>>
            /\ conns[i].at \in {"Parse", "Route", "Serialize"} =>
                 (conns[i].buf = <<>> /\ conns[i].sent = <<>>)
            /\ conns[i].buf # <<>> => (conns[i].resp # <<>> /\ conns[i].buf[1] = ServiceResponse)
            /\ conns[i].at = "Write" => conns[i].buf # <<>>
            /\ conns[i].sent # <<>> =>
                 /\ conns[i].buf # <<>>
                 /\ conns[i].at = "Done"
                 /\ Len(conns[i].sent) <= Len(conns[i].buf[1])
                 /\ conns[i].sent = SubSeq(conns[i].buf[1], 1, Len(conns[i].sent)))
  /\ [][\A i \in 1..Len(conns) :
          (conns[i].kind = "honeypot" /\ conns'[i] # conns[i]) =>
            C36_Order(conns'[i].at) > C36_Order(conns[i].at)]_vars

\* a honeypot connection went through every step and wrote its response
C36_Witness ==
  \E i \in 1..Len(conns) :
    /\ conns[i].kind = "honeypot"
    /\ conns[i].parse = "ok"
    /\ conns[i].resp # <<>>
    /\ conns[i].buf = <<ServiceResponse>>
    /\ conns[i].sent = ServiceResponse
    /\ conns[i].result = "Ok"

(***************************************************************************)
(* Properties of connection tasks side by side, checked under SpecTasks.   *)
(***************************************************************************)

\* what a task has parsed and produced is what its connection gets when it
\* is handled alone
C37_AsIfAlone ==
  \A i \in 1..Len(tasks) :
    LET inp == tasks[i].input IN
    /\ tasks[i].vals # <<>> =>
         tasks[i].vals[1] = HeaderValues(inp.line[1], inp.line[2])
    /\ tasks[i].response # <<>> =>
         tasks[i].response[1] = Router(inp.req, TaskDefaultHeaders, inp.now).result

\* C37 as stated: the tasks do not interfere and nothing the tasks share is
\* written once it is initialised.
C37_NothingSharedIsWritten ==
  /\ C37_AsIfAlone
  /\ statics.table \in {<<>>, <<KNOWN_LIST_HEADERS>>}
  /\ statics.re \in {<<>>, <<RE>>}
  /\ registry = 0

\* C37, amended: under every interleaving the values parsed and the
\* Response produced for a connection are those it gets when handled alone,
\* a step of one task changes no other task, and the statics the parser and
\* the router read (KNOWN_LIST_HEADERS, RE; SEED is a constant) are never
\* written after their initialisation; the registry of the metrics is
\* shared too and is written by every task.
C37_TasksDoNotInterfere ==
  /\ [](/\ C37_AsIfAlone
        /\ statics.table \in {<<>>, <<KNOWN_LIST_HEADERS>>}
        /\ statics.re \in {<<>>, <<RE>>}
        /\ registry = Cardinality({i \in 1..Len(tasks) : tasks[i].at \in {"Route", "Done"}}))
  /\ [][/\ (statics.table # <<>> => statics'.table = statics.table)
        /\ (statics.re # <<>> => statics'.re = statics.re)
        /\ \A i \in 1..Len(tasks) :
             tasks'[i] # tasks[i] => \A j \in 1..Len(tasks) : j # i => tasks'[j] = tasks[j]]_vars

\* the second connection was answered, from the pattern, while the first
\* was between its parse and its routing; both found the statics initialised
\* by the other
C37_Witness ==
  /\ Len(tasks) = 2
  /\ tasks[1].at = "Route"
  /\ tasks[1].vals = <<<< <<"a","=","1">>, <<"b","=","2">> >>>>
  /\ tasks[2].at = "Done"
  /\ tasks[2].input.req.method = "GET"
  /\ tasks[2].input.req.url.query # <<>>
  /\ tasks[2].response # <<>>
  /\ tasks[2].response[1].ok
  /\ statics.table # <<>>
  /\ statics.re # <<>>
  /\ registry = 2

(***************************************************************************)
(* Properties of the names of the headers, checked under Spec.             *)
(***************************************************************************)

\* the name k is on the wire as the name of a header line
C38_Received(k) ==
  \E p \in 0..(Len(wire) - Len(k) - 1) :
    /\ p = 0 \/ wire[p] = "\n"
    /\ SubSeq(wire, p + 1, p + Len(k) + 1) = k \o <<":">>

\* C38: header names are kept and looked up as received: every name of the
\* map is a name on the wire in its spelling; a request is built only with
\* a header spelled Host, and one that got to the end without it, a host
\* header in another spelling or none, fails for the missing host; the
\* declared length is taken from a name that is content-length in lower
\* case, and the values of a name that is in the table in lower case are
\* split on its delimiter.
C38_NamesAsReceived ==
  /\ \A k \in DOMAIN headers :
       /\ C38_Received(k)
       /\ ToLower(k) = s_content_length => body_len # <<>>
       /\ \A d \in {KnownListDelim(ToLower(k))} :
            d # <<>> =>
              \A i \in 1..Len(headers[k]) : FirstIn(headers[k][i], {d[1]}) = 0
  /\ body_len # <<>> => \E k \in DOMAIN headers : ToLower(k) = s_content_length
  /\ request # <<>> => s_Host \in DOMAIN headers
  /\ (state = "Done" /\ error \in {<<>>, <<"host">>, <<"path">>, <<"url">>}) =>
       (error = <<"host">> <=> s_Host \notin DOMAIN headers)

\* a request whose host header is spelled host failed for the missing host;
\* its Cookie line was split and its content-length line was taken
C38_Witness ==
  /\ state = "Done"
  /\ error = <<"host">>
  /\ request = <<>>
  /\ ToLower(s_Host) \in DOMAIN headers
  /\ s_Host \notin DOMAIN headers
  /\ s_Cookie \in DOMAIN headers
  /\ Len(headers[s_Cookie]) = 3
  /\ s_content_length \in DOMAIN headers
  /\ body_len = <<3>>

\* the length the header lines from offset p on declare last, acc before
\* them: the value of the last line whose name is content-length in lower
\* case
RECURSIVE C39_LastLength(_, _)
C39_LastLength(p, acc) ==
  LET line == ReadLine(wire, p)
      nv == SplitOnce(line, ":")
  IN
  IF line = <<>> \/ nv = <<>> THEN acc
  ELSE C39_LastLength(p + Len(line),
                      IF ToLower(nv[1]) = s_content_length
                      THEN ParseUsize(Trim(nv[2])) ELSE acc)

\* C39: the size of a Request is the value of its last Content-Length
\* line, 0 without one, whatever the method; its body is empty for a
\* method without body and without a declared length, and has exactly size
\* bytes otherwise; it is never longer than size.
C39_SizeAndBody ==
  request # <<>> =>
    \A declared \in {C39_LastLength(Len(ReadLine(wire, 0)), <<>>)} :
      LET req == request[1] IN
      /\ req.size = IF declared = <<>> THEN 0 ELSE declared[1]
      /\ Len(req.body) <= req.size
      /\ (req.method \in BodilessMethods \/ declared = <<>>) => req.body = <<>>
      /\ (req.method \in {"POST", "PUT"} /\ declared # <<>>) => Len(req.body) = req.size
      /\ Len(req.body) \in {0, req.size}

\* a GET with two Content-Length lines: the size is that of the last, the
\* body is empty
C39_Witness ==
  /\ request # <<>>
  /\ request[1].method = "GET"
  /\ request[1].size = 3
  /\ request[1].body = <<>>
  /\ Cardinality(DOMAIN request[1].headers) = 3
  /\ lastHeader # <<>>
  /\ lastHeader[1].name = s_content_length

(***************************************************************************)
(* Properties of the seeded headers, checked under SpecBuilder.            *)
(***************************************************************************)

\* the map h holds the seeded Server and Date values first, and its Server
\* line as into_string writes it starts with the httpot identification
C40_Seeded(h) ==
  /\ s_Server \in DOMAIN h
  /\ s_Date \in DOMAIN h
  /\ h[s_Server] # <<>>
  /\ h[s_Date] # <<>>
  /\ h[s_Server][1] \in ServerValues
  /\ h[s_Date][1] \in DateValues
  /\ \A text \in {HeaderLine(s_Server, h[s_Server])} :
       /\ Len(text) >= 14
       /\ SubSeq(text, 1, 14) = s_Server \o <<":", " ">> \o <<"h","t","t","p","o","t">>

\* C40: the headers of a builder, once it has any, and of every Response
\* built hold the seeded Server and Date values, whatever calls of
\* add_header, add_headers, body and status_code were made; a call adds
\* values behind those a name has and removes none.
C40_SeededHeadersStay ==
  /\ [](/\ b_headers # <<>> => C40_Seeded(b_headers[1])
        /\ (built # <<>> /\ built[1].ok) => C40_Seeded(built[1].headers))
  /\ [][b_headers # <<>> =>
          \A k \in DOMAIN b_headers[1] :
            /\ k \in DOMAIN b_headers'[1]
            /\ Len(b_headers'[1][k]) >= Len(b_headers[1][k])
            /\ SubSeq(b_headers'[1][k], 1, Len(b_headers[1][k])) = b_headers[1][k]]_vars

\* a Response built after add_header("Server", ..), add_headers and body:
\* the seeded Server value is first, the added ones follow
C40_Witness ==
  /\ built # <<>>
  /\ built[1].ok
  /\ Len(b_calls) = 4
  /\ b_calls[1][1] = "add_header"
  /\ b_calls[1][2] = s_Server
  /\ b_calls[2][1] = "add_headers"
  /\ b_calls[3][1] = "body"
  /\ Len(built[1].headers[s_Server]) >= 2
  /\ built[1].headers[s_Server][1] \in ServerValues

====
